---- MODULE Spec2Model ----
(***************************************************************************)
(* Baton: the workflow graph compiler (buildGraph), the node executor and  *)
(* router it creates, the superstep traversal that graph.invoke performs   *)
(* on the compiled graph, and executeGraph's result computation.           *)
(***************************************************************************)
EXTENDS Integers, Sequences, FiniteSets, TLC

VARIABLES
    pc,           \* position of the run: generate, pool, build, execute, running, ...
    candidate,    \* the schema document under processing
    agents,       \* node ids that have an agent in the pool handed to buildGraph
    compiled,     \* the compiled graph: per node, its routing kind
    initialMetadata, \* metadata returned by buildGraph and passed to executeGraph
    state,        \* OrchestratorStateType held by the running graph
    active,       \* node ids dispatched in the current superstep
    completions,  \* completions of the current superstep, in completion order
    previous,     \* node ids that completed in the superstep before this one
    step,         \* supersteps completed so far
    thrown,       \* the message graph.invoke threw with, if it threw
    result,       \* the ExecutionResult executeGraph returned, if it returned
    options,      \* BuildGraphOptions.initialMetadata given by the caller, if any
    issues,       \* the violations the schema parse reported
    execCount,    \* history: executor invocations per node id
    succeeded,    \* history: node ids whose delegate call has succeeded
    failed,       \* history: node ids whose delegate call has failed
    insertions,   \* history: nodeOutputs keys in the order they were first written
    applied,      \* history: the completions the last barrier applied, in the order applied
    sequential,   \* history: every superstep so far had exactly one active node
    internalCalls, \* history: executeInternal calls made per node id
    reported,     \* history: node ids an applied update has reported as failed
    initFailed,   \* history: node ids whose agent's initSession rejected
    agentRun      \* one BaseCLIAgent.execute call followed step by step

vars == <<pc, candidate, agents, compiled, initialMetadata, state, active,
          completions, previous, step, thrown, result, options, issues, execCount,
          succeeded, failed, insertions, applied, sequential, internalCalls,
          reported, initFailed, agentRun>>

(***************************************************************************)
(* Values.  null / undefined is None, a present value x is Some(x).        *)
(***************************************************************************)
None == <<>>
Some(x) == <<x>>

\* JS truthiness of a string | null value
Truthy(e) == e # None /\ e[1] # ""

END == "__end__"

\* The largest maxRetries the enumerated schemas use.
MaxK == 2

\* Supersteps graph.invoke runs before it gives up (no recursionLimit is passed).
RecursionLimit == 25

\* The executeInternal calls counted per node; the count stops there.
CallsCap == 2 * (MaxK + 1) + 2

Min(a, b) == IF a <= b THEN a ELSE b

EmptyMap == [k \in {} |-> 0]

\* a merge that drops a key the update writes again
MergeToggle(a, b) ==
    [k \in ((DOMAIN a) \cup (DOMAIN b)) \ ((DOMAIN a) \cap (DOMAIN b)) |->
        IF k \in DOMAIN b THEN b[k] ELSE a[k]]

\* { ...a, ...b } on mappings whose enumeration order is never observed
Merge(a, b) ==
    [k \in (DOMAIN a) \cup (DOMAIN b) |-> IF k \in DOMAIN b THEN b[k] ELSE a[k]]

(***************************************************************************)
(* A JS object whose enumeration order is observed (nodeOutputs): the      *)
(* sequence of its entries in enumeration order.  Integer-like keys come   *)
(* first in ascending numeric order, other keys in order of insertion; a   *)
(* write to an existing key keeps the key's position.                      *)
(***************************************************************************)
CanonicalIndex(k) ==
    CASE k = "1" -> 1
      [] k = "2" -> 2
      [] OTHER -> -1

ObjKeys(o) == {o[i].k : i \in DOMAIN o}

ObjHas(o, k) == k \in ObjKeys(o)

ObjGet(o, k) == o[CHOOSE i \in DOMAIN o : o[i].k = k].v

InsertAt(o, i, e) == SubSeq(o, 1, i - 1) \o <<e>> \o SubSeq(o, i, Len(o))

\* a write that puts a new key first
ObjSetFront(o, k, v) ==
    IF ObjHas(o, k)
    THEN [i \in DOMAIN o |-> IF o[i].k = k THEN [k |-> k, v |-> v] ELSE o[i]]
    ELSE <<[k |-> k, v |-> v]>> \o o

ObjSet(o, k, v) ==
    IF ObjHas(o, k)
    THEN [i \in DOMAIN o |-> IF o[i].k = k THEN [k |-> k, v |-> v] ELSE o[i]]
    ELSE IF CanonicalIndex(k) >= 0
    THEN LET later == {i \in DOMAIN o : CanonicalIndex(o[i].k) < 0
                                        \/ CanonicalIndex(o[i].k) > CanonicalIndex(k)}
         IN IF later = {} THEN Append(o, [k |-> k, v |-> v])
            ELSE InsertAt(o, CHOOSE i \in later : \A j \in later : i <= j,
                          [k |-> k, v |-> v])
    ELSE Append(o, [k |-> k, v |-> v])

\* a reducer that keeps the update alone
ObjSpreadReplace(a, b) == b

RECURSIVE ObjSpread(_, _)
ObjSpread(a, b) ==
    IF b = <<>> THEN a
    ELSE ObjSpread(ObjSet(a, Head(b).k, Head(b).v), Tail(b))

\* Object.values(o)
ObjValues(o) == [i \in DOMAIN o |-> o[i].v]

(***************************************************************************)
(* Schema documents.                                                       *)
(***************************************************************************)
Num(k) == [t |-> "num", v |-> k]
Str == [t |-> "str", v |-> 0]
Undef == [t |-> "undef", v |-> 0]

StateNode(id, maxRetries, onSuccess, onError) ==
    [id |-> id, maxRetries |-> maxRetries, onSuccess |-> onSuccess, onError |-> onError]

Plain(id, maxRetries) == StateNode(id, maxRetries, None, None)

Edge(from, to) == [from |-> from, to |-> to, condition |-> None]

CondEdge(from, to, code) == [from |-> from, to |-> to, condition |-> Some(code)]

Schema(nodes, edges, startNodeId, endNodeId, meta) ==
    [nodes |-> nodes, edges |-> edges, startNodeId |-> startNodeId,
     endNodeId |-> endNodeId, initialMetadata |-> meta]

NodeIds(schema) == {schema.nodes[i].id : i \in DOMAIN schema.nodes}

\* schema.nodes.find((n) => n.id === id)
FindNode(schema, id) ==
    schema.nodes[CHOOSE i \in DOMAIN schema.nodes :
                    /\ schema.nodes[i].id = id
                    /\ \A j \in DOMAIN schema.nodes : schema.nodes[j].id = id => i <= j]

\* node.maxRetries ?? 0
MaxRetriesOf(node) == IF node.maxRetries.t = "num" THEN node.maxRetries.v ELSE 0

\* state._retryCount[id] ?? 0
RetryCountOf(retryCount, id) == IF id \in DOMAIN retryCount THEN retryCount[id] ELSE 0

(***************************************************************************)
(* Expression evaluation.  Conditions and hooks are JavaScript source text *)
(* run through new Function; each expression the enumerated schemas use is *)
(* evaluated here as JavaScript evaluates it.  An expression that throws   *)
(* (property access on undefined) is caught by the caller's try/catch.     *)
(***************************************************************************)
CondThrows(code, ctx) ==
    CASE code = "ctx.nodeOutputs.missing.length > 0" -> TRUE
      [] OTHER -> FALSE

\* the truthiness of fn(ctx)
CondValue(code, ctx) ==
    CASE code = "ctx.metadata.ok === true" ->
            "ok" \in DOMAIN ctx.metadata /\ ctx.metadata["ok"] = TRUE
      [] code = "ctx.metadata.ok === false" ->
            "ok" \in DOMAIN ctx.metadata /\ ctx.metadata["ok"] = FALSE
      [] code = "ctx.error !== null" -> ctx.error # None
      [] code = "ctx.error === null" -> ctx.error = None
      [] code = "ctx.error" -> Truthy(ctx.error)
      [] code = "true" -> TRUE
      [] code = "false" -> FALSE
      [] OTHER -> FALSE

evaluateCondition(conditionCode, ctx) ==
    IF CondThrows(conditionCode, ctx) THEN FALSE ELSE CondValue(conditionCode, ctx)

HookThrows(code, context) ==
    CASE code = "$metadata.missing.x" -> TRUE
      [] OTHER -> FALSE

\* the value of fn(...) when it is a non-null object, EmptyMap otherwise
HookValue(code, context) ==
    CASE code = "({ ok: true })" -> ("ok" :> TRUE)
      [] code = "({ ok: false })" -> ("ok" :> FALSE)
      [] code = "({ ok: $retryCount === 0 })" -> ("ok" :> (context.retryCount = 0))
      [] code = "({ n: ($metadata.n || 0) + 1 })" ->
            ("n" :> (IF "n" \in DOMAIN context.metadata THEN context.metadata["n"] ELSE 0) + 1)
      [] code = "42" -> EmptyMap
      [] OTHER -> EmptyMap

\* a hook whose failure leaks into the update
executeMetadataUpdateLeaky(code, context) ==
    IF HookThrows(code, context) THEN ("error" :> TRUE) ELSE HookValue(code, context)

executeMetadataUpdate(code, context) ==
    IF HookThrows(code, context) THEN EmptyMap ELSE HookValue(code, context)

(***************************************************************************)
(* The delegate.  A call of executeInternal returns Ok(output) or throws   *)
(* Fail(message); BaseCLIAgent.execute retries it once.                    *)
(***************************************************************************)
Ok(output) == [ok |-> TRUE, val |-> output]
Fail(message) == [ok |-> FALSE, val |-> message]

\* private maxRetries = 1
AgentMaxRetries == 1

Messages == {"boom"}

OutputsOf(id) == {"", id \o "-out"}

InternalResults(id) == {Ok(o) : o \in OutputsOf(id)} \cup {Fail(m) : m \in Messages}

\* BaseCLIAgent.execute over the results of its successive executeInternal calls
RECURSIVE ExecuteFrom(_, _)
ExecuteFrom(internal, attempt) ==
    IF attempt > AgentMaxRetries + 1 THEN internal[attempt - 1]
    ELSE IF internal[attempt].ok THEN internal[attempt]
    ELSE ExecuteFrom(internal, attempt + 1)

execute(internal) == ExecuteFrom(internal, 1)

\* the executeInternal calls that execute makes
RECURSIVE CallsMade(_, _)
CallsMade(internal, attempt) ==
    IF attempt > AgentMaxRetries + 1 THEN 0
    ELSE IF internal[attempt].ok THEN 1
    ELSE 1 + CallsMade(internal, attempt + 1)

(***************************************************************************)
(* createNodeExecutor: the partial state update one invocation returns.    *)
(***************************************************************************)
ExhaustedMessage(id, attemptNumber, errorMessage) ==
    "Node " \o id \o " failed after " \o ToString(attemptNumber)
        \o " attempts: " \o errorMessage

\* an executor that hands the hook the attempt number in place of the retries so far
createNodeExecutorHookAfter(node, hasAgent, st, internal) ==
    IF ~hasAgent
    THEN [error |-> Some("No agent available for node: " \o node.id),
          currentNode |-> Some(node.id)]
    ELSE
    LET attemptNumber == RetryCountOf(st.retryCount, node.id) + 1
        maxRetries == MaxRetriesOf(node)
        totalAttempts == maxRetries + 1
        outcome == execute(internal)
    IN  IF outcome.ok
        THEN [nodeOutputs |-> <<[k |-> node.id, v |-> outcome.val]>>,
              metadata |->
                  IF node.onSuccess # None
                  THEN executeMetadataUpdate(node.onSuccess[1],
                           [output |-> outcome.val, retryCount |-> attemptNumber,
                            metadata |-> st.metadata, nodeId |-> node.id])
                  ELSE EmptyMap,
              currentNode |-> Some(node.id),
              error |-> None,
              retryCount |-> (node.id :> attemptNumber)]
        ELSE LET metadataUpdate ==
                     IF node.onError # None
                     THEN executeMetadataUpdate(node.onError[1],
                              [error |-> outcome.val, retryCount |-> attemptNumber - 1,
                               metadata |-> st.metadata, nodeId |-> node.id])
                     ELSE EmptyMap
             IN IF attemptNumber < totalAttempts
                THEN [metadata |-> metadataUpdate,
                      currentNode |-> Some(node.id),
                      error |-> Some(outcome.val),
                      retryCount |-> (node.id :> attemptNumber)]
                ELSE [error |-> Some(ExhaustedMessage(node.id, attemptNumber, outcome.val)),
                      metadata |-> metadataUpdate,
                      currentNode |-> Some(node.id),
                      retryCount |-> (node.id :> attemptNumber)]

\* an executor that never elaborates the error message
createNodeExecutorSoftOnly(node, hasAgent, st, internal) ==
    IF ~hasAgent
    THEN [error |-> Some("No agent available for node: " \o node.id),
          currentNode |-> Some(node.id)]
    ELSE
    LET attemptNumber == RetryCountOf(st.retryCount, node.id) + 1
        maxRetries == MaxRetriesOf(node)
        totalAttempts == maxRetries + 1
        outcome == execute(internal)
    IN  IF outcome.ok
        THEN [nodeOutputs |-> <<[k |-> node.id, v |-> outcome.val]>>,
              metadata |->
                  IF node.onSuccess # None
                  THEN executeMetadataUpdate(node.onSuccess[1],
                           [output |-> outcome.val, retryCount |-> attemptNumber - 1,
                            metadata |-> st.metadata, nodeId |-> node.id])
                  ELSE EmptyMap,
              currentNode |-> Some(node.id),
              error |-> None,
              retryCount |-> (node.id :> attemptNumber)]
        ELSE LET metadataUpdate ==
                     IF node.onError # None
                     THEN executeMetadataUpdate(node.onError[1],
                              [error |-> outcome.val, retryCount |-> attemptNumber - 1,
                               metadata |-> st.metadata, nodeId |-> node.id])
                     ELSE EmptyMap
             IN IF attemptNumber < totalAttempts
                THEN [metadata |-> metadataUpdate,
                      currentNode |-> Some(node.id),
                      error |-> Some(outcome.val),
                      retryCount |-> (node.id :> attemptNumber)]
                ELSE [error |-> Some(outcome.val),
                      metadata |-> metadataUpdate,
                      currentNode |-> Some(node.id),
                      retryCount |-> (node.id :> attemptNumber)]

\* an executor that starts the count afresh once the node has succeeded
createNodeExecutorResetting(node, hasAgent, st, internal) ==
    IF ~hasAgent
    THEN [error |-> Some("No agent available for node: " \o node.id),
          currentNode |-> Some(node.id)]
    ELSE
    LET attemptNumber == RetryCountOf(st.retryCount, node.id) + 1
        maxRetries == MaxRetriesOf(node)
        totalAttempts == maxRetries + 1
        outcome == execute(internal)
    IN  IF outcome.ok
        THEN [nodeOutputs |-> <<[k |-> node.id, v |-> outcome.val]>>,
              metadata |->
                  IF node.onSuccess # None
                  THEN executeMetadataUpdate(node.onSuccess[1],
                           [output |-> outcome.val, retryCount |-> attemptNumber - 1,
                            metadata |-> st.metadata, nodeId |-> node.id])
                  ELSE EmptyMap,
              currentNode |-> Some(node.id),
              error |-> None,
              retryCount |-> (node.id :> 0)]
        ELSE LET metadataUpdate ==
                     IF node.onError # None
                     THEN executeMetadataUpdate(node.onError[1],
                              [error |-> outcome.val, retryCount |-> attemptNumber - 1,
                               metadata |-> st.metadata, nodeId |-> node.id])
                     ELSE EmptyMap
             IN IF attemptNumber < totalAttempts
                THEN [metadata |-> metadataUpdate,
                      currentNode |-> Some(node.id),
                      error |-> Some(outcome.val),
                      retryCount |-> (node.id :> attemptNumber)]
                ELSE [error |-> Some(ExhaustedMessage(node.id, attemptNumber, outcome.val)),
                      metadata |-> metadataUpdate,
                      currentNode |-> Some(node.id),
                      retryCount |-> (node.id :> attemptNumber)]

createNodeExecutor(node, hasAgent, st, internal) ==
    IF ~hasAgent
    THEN [error |-> Some("No agent available for node: " \o node.id),
          currentNode |-> Some(node.id)]
    ELSE
    LET attemptNumber == RetryCountOf(st.retryCount, node.id) + 1
        maxRetries == MaxRetriesOf(node)
        totalAttempts == maxRetries + 1
        outcome == execute(internal)
    IN  IF outcome.ok
        THEN [nodeOutputs |-> <<[k |-> node.id, v |-> outcome.val]>>,
              metadata |->
                  IF node.onSuccess # None
                  THEN executeMetadataUpdate(node.onSuccess[1],
                           [output |-> outcome.val, retryCount |-> attemptNumber - 1,
                            metadata |-> st.metadata, nodeId |-> node.id])
                  ELSE EmptyMap,
              currentNode |-> Some(node.id),
              error |-> None,
              retryCount |-> (node.id :> attemptNumber)]
        ELSE LET metadataUpdate ==
                     IF node.onError # None
                     THEN executeMetadataUpdate(node.onError[1],
                              [error |-> outcome.val, retryCount |-> attemptNumber - 1,
                               metadata |-> st.metadata, nodeId |-> node.id])
                     ELSE EmptyMap
             IN IF attemptNumber < totalAttempts
                THEN [metadata |-> metadataUpdate,
                      currentNode |-> Some(node.id),
                      error |-> Some(outcome.val),
                      retryCount |-> (node.id :> attemptNumber)]
                ELSE [error |-> Some(ExhaustedMessage(node.id, attemptNumber, outcome.val)),
                      metadata |-> metadataUpdate,
                      currentNode |-> Some(node.id),
                      retryCount |-> (node.id :> attemptNumber)]

(***************************************************************************)
(* OrchestratorStateAnnotation: the per-field reducers, and the            *)
(* application of one partial update through them.                         *)
(***************************************************************************)
\* reducers whose scalar fields keep the value they hold
ReduceKeepFirst(field, a, b) ==
    CASE field = "nodeOutputs" -> ObjSpread(a, b)
      [] field = "metadata" -> Merge(a, b)
      [] field = "retryCount" -> Merge(a, b)
      [] OTHER -> a

\* reducers in which an error, once set, is kept
ReduceErrorKept(field, a, b) ==
    CASE field = "nodeOutputs" -> ObjSpread(a, b)
      [] field = "metadata" -> Merge(a, b)
      [] field = "retryCount" -> Merge(a, b)
      [] field = "error" -> IF a # None THEN a ELSE b
      [] OTHER -> b

\* reducers in which nodeOutputs takes the last update whole
ReduceOutputsReplaced(field, a, b) ==
    CASE field = "metadata" -> Merge(a, b)
      [] field = "retryCount" -> Merge(a, b)
      [] OTHER -> b

\* reducers in which the attempt counts take the last update whole
ReduceCountsReplaced(field, a, b) ==
    CASE field = "nodeOutputs" -> ObjSpread(a, b)
      [] field = "metadata" -> Merge(a, b)
      [] OTHER -> b

Reduce(field, a, b) ==
    CASE field = "nodeOutputs" -> ObjSpread(a, b)
      [] field = "metadata" -> Merge(a, b)
      [] field = "retryCount" -> Merge(a, b)
      [] OTHER -> b

\* an application of updates that derives finalAnswer as each output arrives
ApplyPatchAnswering(st, patch) ==
    [f \in DOMAIN st |->
        IF f \in DOMAIN patch THEN Reduce(f, st[f], patch[f])
        ELSE IF f = "finalAnswer" /\ "nodeOutputs" \in DOMAIN patch
        THEN patch.nodeOutputs[1].v
        ELSE st[f]]

ApplyPatch(st, patch) ==
    [f \in DOMAIN st |-> IF f \in DOMAIN patch THEN Reduce(f, st[f], patch[f]) ELSE st[f]]

RECURSIVE ApplyAll(_, _)
ApplyAll(st, patches) ==
    IF patches = <<>> THEN st
    ELSE ApplyAll(ApplyPatch(st, Head(patches)), Tail(patches))

(***************************************************************************)
(* createConditionRouter: what the router returns, as a sequence (a single *)
(* string return is the one-element sequence).                             *)
(***************************************************************************)
OutgoingEdges(schema, fromNodeId) ==
    SelectSeq(schema.edges, LAMBDA e : e.from = fromNodeId)

\* a router in which a matching conditional edge takes the place of the unconditional ones
createConditionRouterExclusive(schema, fromNodeId, st) ==
    LET outgoingEdges == OutgoingEdges(schema, fromNodeId)
        ctx == [nodeOutputs |-> st.nodeOutputs, metadata |-> st.metadata,
                error |-> st.error, currentNode |-> st.currentNode]
        matching == SelectSeq(outgoingEdges,
                        LAMBDA e : e.condition # None
                                   /\ evaluateCondition(e.condition[1], ctx))
        unconditionalEdges == SelectSeq(outgoingEdges, LAMBDA e : e.condition = None)
    IN  IF matching # <<>> THEN [i \in DOMAIN matching |-> matching[i].to]
        ELSE IF unconditionalEdges # <<>>
        THEN [i \in DOMAIN unconditionalEdges |-> unconditionalEdges[i].to]
        ELSE <<END>>

\* a router that follows a matching conditional edge before it considers a retry
createConditionRouterEdgesFirst(schema, fromNodeId, st) ==
    LET outgoingEdges == OutgoingEdges(schema, fromNodeId)
        ctx == [nodeOutputs |-> st.nodeOutputs, metadata |-> st.metadata,
                error |-> st.error, currentNode |-> st.currentNode]
        matching == SelectSeq(outgoingEdges,
                        LAMBDA e : e.condition # None
                                   /\ evaluateCondition(e.condition[1], ctx))
    IN  IF Truthy(st.error) /\ matching # <<>> THEN <<matching[1].to>>
        ELSE IF Truthy(st.error) THEN <<fromNodeId>>
        ELSE createConditionRouterExclusive(schema, fromNodeId, st)

\* a router whose exhausted-retry rule follows every matching edge and the unconditional ones
createConditionRouterAllMatching(schema, fromNodeId, st) ==
    LET outgoingEdges == OutgoingEdges(schema, fromNodeId)
        totalAttempts ==
            (IF fromNodeId \in NodeIds(schema)
             THEN MaxRetriesOf(FindNode(schema, fromNodeId)) ELSE 0) + 1
        ctx == [nodeOutputs |-> st.nodeOutputs, metadata |-> st.metadata,
                error |-> st.error, currentNode |-> st.currentNode]
        matching == SelectSeq(outgoingEdges,
                        LAMBDA e : e.condition # None
                                   /\ evaluateCondition(e.condition[1], ctx))
        unconditionalEdges == SelectSeq(outgoingEdges, LAMBDA e : e.condition = None)
        destinations ==
            [i \in DOMAIN unconditionalEdges |-> unconditionalEdges[i].to]
                \o [i \in DOMAIN matching |-> matching[i].to]
    IN  IF Truthy(st.error) /\ ~ObjHas(st.nodeOutputs, fromNodeId)
           /\ RetryCountOf(st.retryCount, fromNodeId) < totalAttempts
        THEN <<fromNodeId>>
        ELSE IF destinations = <<>> THEN <<END>> ELSE destinations

\* a router whose success rule leaves out the conditional edges
createConditionRouterUnconditional(schema, fromNodeId, st) ==
    LET outgoingEdges == OutgoingEdges(schema, fromNodeId)
        totalAttempts ==
            (IF fromNodeId \in NodeIds(schema)
             THEN MaxRetriesOf(FindNode(schema, fromNodeId)) ELSE 0) + 1
        ctx == [nodeOutputs |-> st.nodeOutputs, metadata |-> st.metadata,
                error |-> st.error, currentNode |-> st.currentNode]
        attemptNumber == RetryCountOf(st.retryCount, fromNodeId)
        matching == SelectSeq(outgoingEdges,
                        LAMBDA e : e.condition # None
                                   /\ evaluateCondition(e.condition[1], ctx))
        unconditionalEdges == SelectSeq(outgoingEdges, LAMBDA e : e.condition = None)
        destinations == [i \in DOMAIN unconditionalEdges |-> unconditionalEdges[i].to]
    IN  IF Truthy(st.error) /\ ~ObjHas(st.nodeOutputs, fromNodeId)
           /\ attemptNumber < totalAttempts
        THEN <<fromNodeId>>
        ELSE IF Truthy(st.error) /\ attemptNumber >= totalAttempts
        THEN IF matching # <<>> THEN <<matching[1].to>> ELSE <<END>>
        ELSE IF destinations = <<>> THEN <<END>> ELSE destinations

\* a router whose retry rule does not look for an earlier output of the node
createConditionRouterRetryAgain(schema, fromNodeId, st) ==
    LET outgoingEdges == OutgoingEdges(schema, fromNodeId)
        totalAttempts ==
            (IF fromNodeId \in NodeIds(schema)
             THEN MaxRetriesOf(FindNode(schema, fromNodeId)) ELSE 0) + 1
        ctx == [nodeOutputs |-> st.nodeOutputs, metadata |-> st.metadata,
                error |-> st.error, currentNode |-> st.currentNode]
        attemptNumber == RetryCountOf(st.retryCount, fromNodeId)
        hasOutput == ObjHas(st.nodeOutputs, fromNodeId)
        matching == SelectSeq(outgoingEdges,
                        LAMBDA e : e.condition # None
                                   /\ evaluateCondition(e.condition[1], ctx))
        unconditionalEdges == SelectSeq(outgoingEdges, LAMBDA e : e.condition = None)
        destinations ==
            [i \in DOMAIN unconditionalEdges |-> unconditionalEdges[i].to]
                \o [i \in DOMAIN matching |-> matching[i].to]
    IN  IF Truthy(st.error) /\ attemptNumber < totalAttempts
        THEN <<fromNodeId>>
        ELSE IF Truthy(st.error) /\ attemptNumber >= totalAttempts
        THEN IF matching # <<>> THEN <<matching[1].to>> ELSE <<END>>
        ELSE IF destinations = <<>> THEN <<END>> ELSE destinations

createConditionRouter(schema, fromNodeId, st) ==
    LET outgoingEdges == OutgoingEdges(schema, fromNodeId)
        totalAttempts ==
            (IF fromNodeId \in NodeIds(schema)
             THEN MaxRetriesOf(FindNode(schema, fromNodeId)) ELSE 0) + 1
        ctx == [nodeOutputs |-> st.nodeOutputs, metadata |-> st.metadata,
                error |-> st.error, currentNode |-> st.currentNode]
        attemptNumber == RetryCountOf(st.retryCount, fromNodeId)
        hasOutput == ObjHas(st.nodeOutputs, fromNodeId)
        matching == SelectSeq(outgoingEdges,
                        LAMBDA e : e.condition # None
                                   /\ evaluateCondition(e.condition[1], ctx))
        unconditionalEdges == SelectSeq(outgoingEdges, LAMBDA e : e.condition = None)
        destinations ==
            [i \in DOMAIN unconditionalEdges |-> unconditionalEdges[i].to]
                \o [i \in DOMAIN matching |-> matching[i].to]
    IN  IF Truthy(st.error) /\ ~hasOutput /\ attemptNumber < totalAttempts
        THEN <<fromNodeId>>
        ELSE IF Truthy(st.error) /\ attemptNumber >= totalAttempts
        THEN IF matching # <<>> THEN <<matching[1].to>> ELSE <<END>>
        ELSE IF destinations = <<>> THEN <<END>> ELSE destinations

(***************************************************************************)
(* createStateMachineSchemaDefinition().parse: the issues zod reports.  It *)
(* checks each field's presence and type and nothing else.                 *)
(***************************************************************************)
ZodIssues(doc) ==
    {"nodes[" \o ToString(i) \o "].maxRetries" :
        i \in {j \in DOMAIN doc.nodes : doc.nodes[j].maxRetries.t \notin {"num", "undef"}}}
    \cup (IF doc.startNodeId = None THEN {"startNodeId"} ELSE {})
    \cup (IF doc.endNodeId = None THEN {"endNodeId"} ELSE {})

(***************************************************************************)
(* buildGraph.                                                             *)
(***************************************************************************)
\* graph.addNode / graph.compile throw on these
GraphRejects(schema) ==
    \/ \E i, j \in DOMAIN schema.nodes : i # j /\ schema.nodes[i].id = schema.nodes[j].id
    \/ \E i \in DOMAIN schema.edges :
          \/ schema.edges[i].from \notin NodeIds(schema)
          \/ schema.edges[i].to \notin NodeIds(schema)
    \/ schema.startNodeId[1] \notin NodeIds(schema)

\* a compilation that wires every node without conditions to its first edge only
RoutingFirstEdge(schema, nodeId) ==
    LET outgoingEdges == OutgoingEdges(schema, nodeId)
        hasConditions == \E i \in DOMAIN outgoingEdges : outgoingEdges[i].condition # None
        targets == {outgoingEdges[i].to : i \in DOMAIN outgoingEdges}
    IN  IF outgoingEdges # <<>>
        THEN IF hasConditions
             THEN [kind |-> "router", to |-> END, ends |-> targets \cup {END, nodeId}]
             ELSE [kind |-> "edge", to |-> outgoingEdges[1].to, ends |-> {}]
        ELSE [kind |-> "edge", to |-> END, ends |-> {}]

\* a wiring that gives a router to every node with retries, edges or not
RoutingRetryingEnd(schema, nodeId) ==
    LET outgoingEdges == OutgoingEdges(schema, nodeId)
        hasConditions == \E i \in DOMAIN outgoingEdges : outgoingEdges[i].condition # None
        hasRetry == MaxRetriesOf(FindNode(schema, nodeId)) > 0
        targets == {outgoingEdges[i].to : i \in DOMAIN outgoingEdges}
    IN  IF hasConditions \/ Len(outgoingEdges) > 1 \/ hasRetry
        THEN [kind |-> "router", to |-> END,
              ends |-> targets \cup {END} \cup (IF hasRetry THEN {nodeId} ELSE {})]
        ELSE IF outgoingEdges # <<>>
        THEN [kind |-> "edge", to |-> outgoingEdges[1].to, ends |-> {}]
        ELSE IF schema.endNodeId = Some(nodeId)
        THEN [kind |-> "edge", to |-> END, ends |-> {}]
        ELSE [kind |-> "none", to |-> END, ends |-> {}]

\* the routing buildGraph attaches to node nodeId
Routing(schema, nodeId) ==
    LET outgoingEdges == OutgoingEdges(schema, nodeId)
        hasConditions == \E i \in DOMAIN outgoingEdges : outgoingEdges[i].condition # None
        hasRetry == MaxRetriesOf(FindNode(schema, nodeId)) > 0
        targets == {outgoingEdges[i].to : i \in DOMAIN outgoingEdges}
    IN  IF outgoingEdges # <<>>
        THEN IF hasConditions \/ Len(outgoingEdges) > 1 \/ hasRetry
             THEN [kind |-> "router", to |-> END,
                   ends |-> targets \cup {END} \cup (IF hasRetry THEN {nodeId} ELSE {})]
             ELSE [kind |-> "edge", to |-> outgoingEdges[1].to, ends |-> {}]
        ELSE IF schema.endNodeId = Some(nodeId)
        THEN [kind |-> "edge", to |-> END, ends |-> {}]
        ELSE [kind |-> "none", to |-> END, ends |-> {}]

buildGraph(schema) == [n \in NodeIds(schema) |-> Routing(schema, n)]

\* an overlay in which the schema's value wins over the caller's
InitialMetadataSchemaWins(schema, opts) ==
    Merge(IF opts = None THEN EmptyMap ELSE opts[1], schema.initialMetadata)

\* { ...schema.initialMetadata, ...options?.initialMetadata }
InitialMetadataOf(schema, opts) ==
    Merge(schema.initialMetadata, IF opts = None THEN EmptyMap ELSE opts[1])

\* a router that reads the superstep's state without the node's own update
RoutedStale(schema, graph, n, localState) ==
    CASE graph[n].kind = "router" -> createConditionRouter(schema, n, state)
      [] graph[n].kind = "edge" -> <<graph[n].to>>
      [] OTHER -> <<>>

\* what the compiled graph writes as node n's next destinations
Routed(schema, graph, n, localState) ==
    CASE graph[n].kind = "router" -> createConditionRouter(schema, n, localState)
      [] graph[n].kind = "edge" -> <<graph[n].to>>
      [] OTHER -> <<>>

Range(seq) == {seq[i] : i \in DOMAIN seq}

(***************************************************************************)
(* executeGraph.                                                           *)
(***************************************************************************)
InitialState(prompt, metadata) ==
    [prompt |-> prompt, nodeOutputs |-> <<>>, finalAnswer |-> "", error |-> None,
     metadata |-> metadata, currentNode |-> None, retryCount |-> EmptyMap]

\* shift() in place of pop()
LastOutputShift(nodeOutputs) ==
    LET values == ObjValues(nodeOutputs)
    IN  IF values = <<>> \/ values[1] = "" THEN "No output generated" ELSE values[1]

\* Object.values(nodeOutputs).pop() || "No output generated"
LastOutput(nodeOutputs) ==
    LET values == ObjValues(nodeOutputs)
    IN  IF values = <<>> \/ values[Len(values)] = ""
        THEN "No output generated"
        ELSE values[Len(values)]

\* a result whose finalAnswer carries the error without the marker
ReturnedResultBare(final) ==
    [finalAnswer |-> IF Truthy(final.error) THEN final.error[1]
                     ELSE LastOutput(final.nodeOutputs),
     nodeOutputs |-> final.nodeOutputs,
     metadata |-> final.metadata,
     error |-> final.error]

ReturnedResult(final) ==
    [finalAnswer |-> IF Truthy(final.error)
                     THEN "Error during execution: " \o final.error[1]
                     ELSE LastOutput(final.nodeOutputs),
     nodeOutputs |-> final.nodeOutputs,
     metadata |-> final.metadata,
     error |-> final.error]

\* a catch that hands back what the traversal had accumulated
CaughtResultPartial(errorMessage, metadata) ==
    [finalAnswer |-> "Execution failed: " \o errorMessage,
     nodeOutputs |-> state.nodeOutputs,
     metadata |-> metadata,
     error |-> Some(errorMessage)]

CaughtResult(errorMessage, metadata) ==
    [finalAnswer |-> "Execution failed: " \o errorMessage,
     nodeOutputs |-> <<>>,
     metadata |-> metadata,
     error |-> Some(errorMessage)]

(***************************************************************************)
(* The schema documents the schema producer may hand over, and the direct  *)
(* calls of buildGraph with a caller's own agent map and options.          *)
(***************************************************************************)
Single(maxRetries) ==
    Schema(<<Plain("X", maxRetries)>>, <<>>, Some("X"), Some("X"), EmptyMap)

RetryChain(k) ==
    Schema(<<Plain("X", Num(k)), Plain("Y", Undef)>>, <<Edge("X", "Y")>>,
           Some("X"), Some("Y"), EmptyMap)

Fallback(k) ==
    Schema(<<StateNode("X", Num(k), None, Some("({ ok: false })")),
             Plain("H", Undef), Plain("Y", Undef)>>,
           <<CondEdge("X", "H", "ctx.error !== null"),
             CondEdge("X", "Y", "ctx.error === null")>>,
           Some("X"), Some("Y"), EmptyMap)

Diamond ==
    Schema(<<Plain("A", Undef), Plain("B", Undef), Plain("C", Undef), Plain("D", Undef)>>,
           <<Edge("A", "B"), Edge("A", "C"), Edge("B", "D"), Edge("C", "D")>>,
           Some("A"), Some("D"), EmptyMap)

FanOut(onSuccess) ==
    Schema(<<StateNode("F", Undef, onSuccess, None), Plain("T1", Undef),
             Plain("T2", Undef), Plain("T3", Undef), Plain("T4", Undef)>>,
           <<Edge("F", "T1"), CondEdge("F", "T4", "ctx.metadata.ok === true"),
             Edge("F", "T2"), CondEdge("F", "T2", "ctx.nodeOutputs.missing.length > 0"),
             Edge("F", "T3")>>,
           Some("F"), Some("T3"), EmptyMap)

Verify(onSuccess, meta) ==
    Schema(<<StateNode("V", Undef, onSuccess, None), Plain("P", Undef), Plain("F", Undef)>>,
           <<CondEdge("V", "P", "ctx.metadata.ok === true"),
             CondEdge("V", "F", "ctx.metadata.ok === false")>>,
           Some("V"), Some("P"), meta)

Cycle ==
    Schema(<<Plain("A", Undef), Plain("B", Undef)>>, <<Edge("A", "B"), Edge("B", "A")>>,
           Some("A"), Some("B"), EmptyMap)

\* A fans out to B and C (B is listed twice), which complete in one superstep and end
Fork(onSuccessB, onSuccessC) ==
    Schema(<<Plain("A", Undef), StateNode("B", Undef, onSuccessB, None),
             StateNode("C", Undef, onSuccessC, None)>>,
           <<Edge("A", "B"), Edge("A", "C"), CondEdge("A", "B", "true"),
             CondEdge("B", "C", "false")>>,
           Some("A"), Some("C"), EmptyMap)

\* A is entered a second time from B, and the run ends at A
Revisit ==
    Schema(<<StateNode("A", Undef, Some("({ ok: $retryCount === 0 })"), None),
             StateNode("B", Undef, None, Some("$metadata.missing.x"))>>,
           <<CondEdge("A", "B", "ctx.metadata.ok === true"), Edge("B", "A")>>,
           Some("A"), Some("A"), EmptyMap)

\* Revisit with retries left to A when it is entered again
Reentry ==
    Schema(<<StateNode("A", Num(MaxK), Some("({ ok: $retryCount === 0 })"), None),
             Plain("B", Undef)>>,
           <<CondEdge("A", "B", "ctx.metadata.ok === true"), Edge("B", "A")>>,
           Some("A"), Some("A"), EmptyMap)

\* X has an unconditional edge and two conditional edges that are both true on an error
Exhaust(k) ==
    Schema(<<Plain("X", Num(k)), Plain("Y", Undef), Plain("H", Undef), Plain("G", Undef)>>,
           <<Edge("X", "Y"), CondEdge("X", "H", "ctx.error !== null"),
             CondEdge("X", "G", "ctx.error")>>,
           Some("X"), Some("Y"), EmptyMap)

\* D is reached from A and, one superstep later, from B; it has retries and leads to E
Stagger ==
    Schema(<<Plain("A", Undef), Plain("B", Undef), Plain("D", Num(MaxK)), Plain("E", Undef)>>,
           <<Edge("A", "B"), Edge("A", "D"), Edge("B", "D"), Edge("D", "E")>>,
           Some("A"), Some("E"), EmptyMap)

\* B and C complete in one superstep and each raises the counter n by one
Tally ==
    Schema(<<Plain("A", Undef),
             StateNode("B", Undef, Some("({ n: ($metadata.n || 0) + 1 })"), None),
             StateNode("C", Undef, Some("({ n: ($metadata.n || 0) + 1 })"), None)>>,
           <<Edge("A", "B"), Edge("A", "C")>>,
           Some("A"), Some("C"), ("n" :> 0))

IndexChain ==
    Schema(<<Plain("2", Undef), Plain("1", Undef)>>, <<Edge("2", "1")>>,
           Some("2"), Some("1"), EmptyMap)

DuplicateIds ==
    Schema(<<Plain("A", Undef), Plain("A", Undef)>>, <<>>, Some("A"), Some("A"), EmptyMap)

DanglingEdge ==
    Schema(<<Plain("A", Undef)>>, <<Edge("A", "Z")>>, Some("A"), Some("A"), EmptyMap)

UnknownStart ==
    Schema(<<Plain("A", Undef)>>, <<>>, Some("Z"), Some("A"), EmptyMap)

UnknownEnd ==
    Schema(<<Plain("A", Undef), Plain("B", Undef)>>, <<Edge("A", "B")>>,
           Some("A"), Some("Z"), EmptyMap)

StringRetries ==
    Schema(<<Plain("A", Str), Plain("B", Str)>>, <<Edge("A", "B")>>,
           Some("A"), Some("B"), EmptyMap)

MissingStart ==
    Schema(<<Plain("A", Str)>>, <<>>, None, Some("A"), EmptyMap)

Hooks == {None, Some("({ ok: true })"), Some("({ ok: false })"),
          Some("$metadata.missing.x"), Some("42")}

\* a node allowed as many retries as graph.invoke allows supersteps
LongRetry == RetryChain(RecursionLimit)

Candidates ==
    {Single(Undef)} \cup {Single(Num(k)) : k \in -1 .. MaxK}
    \cup {RetryChain(k) : k \in 0 .. MaxK}
    \cup {Fallback(k) : k \in 0 .. MaxK}
    \cup {Diamond, Cycle, IndexChain, Revisit, Reentry, Exhaust(0), Exhaust(1), LongRetry,
           Tally}
    \cup {Fork(hb, hc) : hb \in {None, Some("({ ok: true })")},
                          hc \in {None, Some("({ ok: false })")}}
    \cup {FanOut(None)}
    \cup {Verify(h, m) : h \in Hooks, m \in {EmptyMap, ("ok" :> FALSE)}}
    \cup {DuplicateIds, DanglingEdge, UnknownStart, UnknownEnd, StringRetries, MissingStart}

DirectCalls ==
    {[schema |-> RetryChain(1), agents |-> {"Y"}, options |-> None],
     [schema |-> Fallback(0), agents |-> {"H", "Y"}, options |-> None],
     [schema |-> FanOut(Some("({ ok: true })")), agents |-> {"F", "T1"}, options |-> None],
     [schema |-> Stagger, agents |-> {"A", "B", "D"}, options |-> None],
     [schema |-> Verify(None, ("ok" :> FALSE)), agents |-> {"V", "P", "F"},
      options |-> Some(("ok" :> TRUE))]}

Prompt == "prompt"

\* no execute call is being followed
NoRun == [script |-> <<>>, attempt |-> 0, lastError |-> None, calls |-> 0,
          outcome |-> None]

(***************************************************************************)
(* The state machine.                                                      *)
(***************************************************************************)
Init ==
    /\ \/ /\ pc = "generate"
          /\ candidate \in Candidates
          /\ agents = {}
          /\ options = None
       \/ \E call \in DirectCalls :
          /\ pc = "build"
          /\ candidate = call.schema
          /\ agents = call.agents
          /\ options = call.options
    /\ compiled = EmptyMap
    /\ initialMetadata = EmptyMap
    /\ state = InitialState("", EmptyMap)
    /\ active = {}
    /\ completions = <<>>
    /\ previous = {}
    /\ step = 0
    /\ thrown = None
    /\ result = None
    /\ issues = {}
    /\ execCount = [n \in NodeIds(candidate) |-> 0]
    /\ succeeded = {}
    /\ failed = {}
    /\ insertions = <<>>
    /\ applied = <<>>
    /\ sequential = TRUE
    /\ internalCalls = [n \in NodeIds(candidate) |-> 0]
    /\ reported = {}
    /\ initFailed = {}
    /\ agentRun = NoRun

\* ManagerAgent.generateStateMachine: schema.parse(parsed)
Validate ==
    /\ pc = "generate"
    /\ issues' = ZodIssues(candidate)
    /\ pc' = IF ZodIssues(candidate) = {} THEN "pool" ELSE "rejected"
    /\ UNCHANGED <<candidate, agents, compiled, initialMetadata, state, active,
                   completions, previous, step, thrown, result, options,
                   execCount, succeeded,
                   failed, insertions, applied, sequential, internalCalls, reported,
                   initFailed, agentRun>>

\* orchestrate: createAgentPool, then initializeAgentPool (every initSession)
\* a pool initialization that settles every initSession and goes on regardless
InitializeAgentPoolSettled ==
    /\ pc = "pool"
    /\ agents' = NodeIds(candidate)
    /\ \E rejected \in SUBSET NodeIds(candidate) :
          /\ initFailed' = rejected
          /\ pc' = "build"
    /\ UNCHANGED <<candidate, compiled, initialMetadata, state, active, completions,
                   previous, step, thrown, result, options, issues, execCount, succeeded,
                   failed, insertions, applied, sequential, internalCalls, reported,
                   agentRun>>

\* await Promise.all(initPromises) rejects when any initSession rejects, and
\* orchestrate rejects with it
InitializeAgentPool ==
    /\ pc = "pool"
    /\ agents' = NodeIds(candidate)
    /\ \E rejected \in SUBSET NodeIds(candidate) :
          /\ initFailed' = rejected
          /\ pc' = IF rejected = {} THEN "build" ELSE "aborted"
    /\ UNCHANGED <<candidate, compiled, initialMetadata, state, active, completions,
                   previous, step, thrown, result, options, issues, execCount, succeeded,
                   failed, insertions, applied, sequential, internalCalls, reported,
                   agentRun>>

BuildGraph ==
    /\ pc = "build"
    /\ IF GraphRejects(candidate)
       THEN /\ pc' = "buildThrew"
            /\ UNCHANGED <<compiled, initialMetadata>>
       ELSE /\ pc' = "execute"
            /\ compiled' = buildGraph(candidate)
            /\ initialMetadata' = InitialMetadataOf(candidate, options)
    /\ UNCHANGED <<candidate, agents, state, active, completions, previous, step,
                   thrown, result, options, issues, execCount, succeeded,
                   failed, insertions, applied, sequential, internalCalls, reported,
                   initFailed, agentRun>>

\* executeGraph up to graph.invoke(state): START -> startNodeId
Invoke ==
    /\ pc = "execute"
    /\ state' = InitialState(Prompt, initialMetadata)
    /\ active' = {candidate.startNodeId[1]}
    /\ pc' = "running"
    /\ UNCHANGED <<candidate, agents, compiled, initialMetadata, completions, previous,
                   step, thrown, result, options, issues, execCount, succeeded,
                   failed, insertions, applied, sequential, internalCalls, reported,
                   initFailed, agentRun>>

Patches == [i \in DOMAIN completions |-> completions[i].patch]

\* a superstep that does not remember which of its nodes have run
CompletedNone == {}

Completed == {completions[i].node : i \in DOMAIN completions}

\* an executor that writes its update into the shared state as soon as it has it
ExecuteNodeInPlace(n) ==
    /\ pc = "running"
    /\ n \in active \ Completed
    /\ \E r1, r2 \in InternalResults(n) :
          LET internal == <<r1, r2>>
              patch == createNodeExecutor(FindNode(candidate, n), n \in agents,
                                          state, internal)
              ok == n \in agents /\ execute(internal).ok
          IN  /\ completions' = Append(completions,
                     [node |-> n, ok |-> ok, patch |-> patch,
                      outcome |-> IF n \in agents THEN execute(internal) ELSE Fail(""),
                      seen |-> state, input |-> state.nodeOutputs,
                      routed |-> Routed(candidate, compiled, n, ApplyPatch(state, patch))])
              /\ state' = ApplyPatch(state, patch)
              /\ succeeded' = IF ok THEN succeeded \cup {n} ELSE succeeded
              /\ failed' = IF n \in agents /\ ~ok THEN failed \cup {n} ELSE failed
              /\ internalCalls' =
                     [internalCalls EXCEPT
                         ![n] = Min(@ + (IF n \in agents THEN CallsMade(internal, 1) ELSE 0),
                                    CallsCap)]
    /\ execCount' = [execCount EXCEPT ![n] = @ + 1]
    /\ UNCHANGED <<pc, candidate, agents, compiled, initialMetadata, active,
                   previous, step, thrown, result, options, issues, insertions,
                   applied, sequential, reported, initFailed, agentRun>>

\* an executor that reads the updates of the siblings that completed before it
ExecuteNodeChained(n) ==
    /\ pc = "running"
    /\ n \in active \ Completed
    /\ \E r1, r2 \in InternalResults(n) :
          LET internal == <<r1, r2>>
              patch == createNodeExecutor(FindNode(candidate, n), n \in agents,
                                          ApplyAll(state, Patches), internal)
              ok == n \in agents /\ execute(internal).ok
          IN  /\ completions' = Append(completions,
                     [node |-> n, ok |-> ok, patch |-> patch,
                      outcome |-> IF n \in agents THEN execute(internal) ELSE Fail(""),
                      seen |-> state, input |-> state.nodeOutputs,
                      routed |-> Routed(candidate, compiled, n, ApplyPatch(state, patch))])
              /\ succeeded' = IF ok THEN succeeded \cup {n} ELSE succeeded
              /\ failed' = IF n \in agents /\ ~ok THEN failed \cup {n} ELSE failed
              /\ internalCalls' =
                     [internalCalls EXCEPT
                         ![n] = Min(@ + (IF n \in agents THEN CallsMade(internal, 1) ELSE 0),
                                    CallsCap)]
    /\ execCount' = [execCount EXCEPT ![n] = @ + 1]
    /\ UNCHANGED <<pc, candidate, agents, compiled, initialMetadata, state, active,
                   previous, step, thrown, result, options, issues, insertions,
                   applied, sequential, reported, initFailed, agentRun>>

\* one node's executor runs against the superstep's state and returns its update;
\* its router reads that state with this update alone applied
ExecuteNode(n) ==
    /\ pc = "running"
    /\ n \in active \ Completed
    /\ \E r1, r2 \in InternalResults(n) :
          LET internal == <<r1, r2>>
              patch == createNodeExecutor(FindNode(candidate, n), n \in agents,
                                          state, internal)
              ok == n \in agents /\ execute(internal).ok
          IN  /\ completions' = Append(completions,
                     [node |-> n, ok |-> ok, patch |-> patch,
                      outcome |-> IF n \in agents THEN execute(internal) ELSE Fail(""),
                      seen |-> state, input |-> state.nodeOutputs,
                      routed |-> Routed(candidate, compiled, n, ApplyPatch(state, patch))])
              /\ succeeded' = IF ok THEN succeeded \cup {n} ELSE succeeded
              /\ failed' = IF n \in agents /\ ~ok THEN failed \cup {n} ELSE failed
              /\ internalCalls' =
                     [internalCalls EXCEPT
                         ![n] = Min(@ + (IF n \in agents THEN CallsMade(internal, 1) ELSE 0),
                                    CallsCap)]
    /\ execCount' = [execCount EXCEPT ![n] = @ + 1]
    /\ UNCHANGED <<pc, candidate, agents, compiled, initialMetadata, state, active,
                   previous, step, thrown, result, options, issues, insertions,
                   applied, sequential, reported, initFailed, agentRun>>

\* the update is the one of line 159: the delegate failed with no attempt left
IsReport(c) ==
    /\ c.node \in agents
    /\ ~c.ok
    /\ c.patch.retryCount[c.node] >= MaxRetriesOf(FindNode(candidate, c.node)) + 1


\* the keys the superstep's updates add to nodeOutputs, in the order written
RECURSIVE NewKeys(_, _)
NewKeys(seen, cs) ==
    IF cs = <<>> THEN <<>>
    ELSE IF Head(cs).ok /\ Head(cs).node \notin seen
    THEN <<Head(cs).node>> \o NewKeys(seen \cup {Head(cs).node}, Tail(cs))
    ELSE NewKeys(seen, Tail(cs))

\* a traversal that drops the step's destinations when one of its nodes failed
NextActiveFailFast ==
    IF \E i \in DOMAIN completions : ~completions[i].ok THEN {}
    ELSE UNION {Range(completions[i].routed) : i \in DOMAIN completions} \ {END}

\* a traversal that holds a node back until every node with an edge to it has run
NextActiveJoined ==
    {d \in UNION {Range(completions[i].routed) : i \in DOMAIN completions} \ {END} :
        \A e \in Range(candidate.edges) :
            (e.to = d /\ e.from # d) => e.from \in succeeded \cup failed}

NextActive == UNION {Range(completions[i].routed) : i \in DOMAIN completions} \ {END}

UnknownDestination ==
    \E i \in DOMAIN completions :
        /\ compiled[completions[i].node].kind = "router"
        /\ \E d \in Range(completions[i].routed) : d \notin compiled[completions[i].node].ends

\* the barrier: every update of the superstep is applied through the reducers,
\* in completion order, and the union of the destinations becomes active
Barrier ==
    /\ pc = "running"
    /\ Completed = active
    /\ IF UnknownDestination
       THEN /\ thrown' = Some("Branch condition returned unknown or null destination")
            /\ pc' = "threw"
            /\ UNCHANGED <<state, active, completions, previous, step, insertions,
                           applied, sequential, reported>>
       ELSE IF NextActive # {} /\ step + 1 >= RecursionLimit
       THEN /\ thrown' = Some("Recursion limit of " \o ToString(RecursionLimit)
                               \o " reached without hitting a stop condition.")
            /\ pc' = "threw"
            /\ UNCHANGED <<state, active, completions, previous, step, insertions,
                           applied, sequential, reported>>
       ELSE /\ state' = ApplyAll(state, Patches)
            /\ active' = NextActive
            /\ previous' = active
            /\ completions' = <<>>
            /\ step' = step + 1
            /\ insertions' = insertions \o NewKeys(Range(insertions), completions)
            /\ applied' = completions
            /\ sequential' = (sequential /\ Cardinality(active) = 1)
            /\ reported' = reported \cup {completions[i].node :
                                              i \in {j \in DOMAIN completions :
                                                         IsReport(completions[j])}}
            /\ pc' = IF NextActive = {} THEN "returned" ELSE "running"
            /\ UNCHANGED thrown
    /\ UNCHANGED <<candidate, agents, compiled, initialMetadata, result, options,
                   issues, execCount, succeeded, failed, internalCalls, initFailed, agentRun>>

\* executeGraph after graph.invoke returned
Finish ==
    /\ pc = "returned"
    /\ result' = Some(ReturnedResult(state))
    /\ pc' = "done"
    /\ UNCHANGED <<candidate, agents, compiled, initialMetadata, state, active,
                   completions, previous, step, thrown, options, issues,
                   execCount, succeeded,
                   failed, insertions, applied, sequential, internalCalls, reported,
                   initFailed, agentRun>>

\* executeGraph's catch
Catch ==
    /\ pc = "threw"
    /\ result' = Some(CaughtResult(thrown[1], initialMetadata))
    /\ pc' = "done"
    /\ UNCHANGED <<candidate, agents, compiled, initialMetadata, state, active,
                   completions, previous, step, thrown, options, issues,
                   execCount, succeeded,
                   failed, insertions, applied, sequential, internalCalls, reported,
                   initFailed, agentRun>>

Next ==
    \/ Validate
    \/ InitializeAgentPool
    \/ BuildGraph
    \/ Invoke
    \/ \E n \in NodeIds(candidate) : ExecuteNode(n)
    \/ Barrier
    \/ Finish
    \/ Catch

Spec == Init /\ [][Next]_vars

\* every delegate call returns and the engine keeps stepping
FairSpec == Spec /\ WF_vars(Next)

(***************************************************************************)
(* BaseCLIAgent.execute followed call by call.  script holds what          *)
(* executeInternal does on its first and on its second call; attempt and   *)
(* lastError are the loop's variables; outcome is what execute settles     *)
(* with.                                                                   *)
(***************************************************************************)
AgentMessages == {"boom", "bang", "crash", "halt"}

AgentResults == {Ok(o) : o \in {"", "out"}} \cup {Fail(m) : m \in AgentMessages}

AgentInit ==
    /\ pc = "agent"
    /\ agentRun \in {[script |-> <<r1, r2>>, attempt |-> 0, lastError |-> None,
                      calls |-> 0, outcome |-> None] : r1, r2 \in AgentResults}
    /\ candidate = Single(Undef)
    /\ agents = {"X"}
    /\ options = None
    /\ compiled = EmptyMap
    /\ initialMetadata = EmptyMap
    /\ state = InitialState("", EmptyMap)
    /\ active = {}
    /\ completions = <<>>
    /\ previous = {}
    /\ step = 0
    /\ thrown = None
    /\ result = None
    /\ issues = {}
    /\ execCount = [n \in NodeIds(candidate) |-> 0]
    /\ succeeded = {}
    /\ failed = {}
    /\ insertions = <<>>
    /\ applied = <<>>
    /\ sequential = TRUE
    /\ internalCalls = [n \in NodeIds(candidate) |-> 0]
    /\ reported = {}
    /\ initFailed = {}

\* a loop that remembers the first error it caught
AgentAttemptFirstError ==
    /\ pc = "agent"
    /\ agentRun.outcome = None
    /\ agentRun.attempt <= AgentMaxRetries
    /\ LET r == agentRun.script[agentRun.attempt + 1]
       IN  agentRun' =
               IF r.ok
               THEN [agentRun EXCEPT !.calls = @ + 1, !.outcome = Some(r)]
               ELSE [agentRun EXCEPT !.calls = @ + 1,
                                     !.lastError = IF @ = None THEN Some(r.val) ELSE @,
                                     !.attempt = @ + 1]
    /\ UNCHANGED <<pc, candidate, agents, compiled, initialMetadata, state, active,
                   completions, previous, step, thrown, result, options, issues,
                   execCount, succeeded, failed, insertions, applied, sequential,
                   internalCalls, reported, initFailed>>

\* one pass of the for loop: return await this.executeInternal(...), or catch
AgentAttempt ==
    /\ pc = "agent"
    /\ agentRun.outcome = None
    /\ agentRun.attempt <= AgentMaxRetries
    /\ LET r == agentRun.script[agentRun.attempt + 1]
       IN  agentRun' =
               IF r.ok
               THEN [agentRun EXCEPT !.calls = @ + 1, !.outcome = Some(r)]
               ELSE [agentRun EXCEPT !.calls = @ + 1,
                                     !.lastError = Some(r.val),
                                     !.attempt = @ + 1]
    /\ UNCHANGED <<pc, candidate, agents, compiled, initialMetadata, state, active,
                   completions, previous, step, thrown, result, options, issues,
                   execCount, succeeded, failed, insertions, applied, sequential,
                   internalCalls, reported, initFailed>>

\* throw lastError ?? new Error("Unknown execution error")
AgentThrow ==
    /\ pc = "agent"
    /\ agentRun.outcome = None
    /\ agentRun.attempt > AgentMaxRetries
    /\ agentRun' = [agentRun EXCEPT !.outcome =
                        Some(Fail(IF agentRun.lastError = None
                                  THEN "Unknown execution error"
                                  ELSE agentRun.lastError[1]))]
    /\ UNCHANGED <<pc, candidate, agents, compiled, initialMetadata, state, active,
                   completions, previous, step, thrown, result, options, issues,
                   execCount, succeeded, failed, insertions, applied, sequential,
                   internalCalls, reported, initFailed>>

AgentNext ==
    \/ AgentAttempt
    \/ AgentThrow

AgentSpec == AgentInit /\ [][AgentNext]_vars


(***************************************************************************)
(* Properties.                                                             *)
(***************************************************************************)
NodeOf(n) == FindNode(candidate, n)

\* the state node n's router read: the superstep's state with n's update applied
LocalState(c) == ApplyPatch(state, c.patch)

Ctx(st) == [nodeOutputs |-> st.nodeOutputs, metadata |-> st.metadata,
            error |-> st.error, currentNode |-> st.currentNode]

ConditionalEdges(n) == SelectSeq(OutgoingEdges(candidate, n), LAMBDA e : e.condition # None)

UnconditionalTargets(n) ==
    {e.to : e \in Range(SelectSeq(OutgoingEdges(candidate, n), LAMBDA e : e.condition = None))}

SomeConditionTrue(n, st) ==
    \E e \in Range(ConditionalEdges(n)) : evaluateCondition(e.condition[1], Ctx(st))

Returned == pc = "done" /\ thrown = None

\* C1: a node with maxRetries = k >= 0 whose delegate fails on every call is executed
\* exactly k+1 times in a run that reaches it; each of the first k failures sets error,
\* records the attempt number in retryCount and routes to the node alone; the (k+1)-th
\* failure records k+1, routes nowhere when no fallback edge matches, and sets error to
\* "Node <id> failed after <k+1> attempts: <message>".
C1_RetryBound ==
    \A n \in NodeIds(candidate) \cap agents :
        LET k == MaxRetriesOf(NodeOf(n))
        IN  (k >= 0 /\ n \notin succeeded) =>
            /\ \A i \in DOMAIN completions :
                  LET c == completions[i]
                      attempt == execCount[n]
                  IN  (c.node = n /\ attempt <= k + 1) =>
                      /\ Truthy(c.patch.error)
                      /\ c.patch.retryCount[n] = attempt
                      /\ attempt <= k => Range(c.routed) = {n}
                      /\ attempt = k + 1 =>
                            /\ \E m \in Messages :
                                  c.patch.error = Some(ExhaustedMessage(n, k + 1, m))
                            /\ ~SomeConditionTrue(n, LocalState(c))
                                  => Range(c.routed) \ {END} = {}
            /\ (Returned /\ execCount[n] > 0) => execCount[n] = k + 1

ThreeWay(n) ==
    LET unconditional == SelectSeq(OutgoingEdges(candidate, n), LAMBDA e : e.condition = None)
    IN  Len(unconditional) = 3 /\ Cardinality(UnconditionalTargets(n)) = 3

\* C2: when a node with three unconditional outgoing edges to distinct targets
\* completes successfully, its router's destinations contain all three targets whatever
\* its conditional edges evaluate to, and are exactly those three when no conditional
\* edge evaluates true.
C2_FanOut ==
    \A i \in DOMAIN completions :
        LET c == completions[i]
        IN  (c.ok /\ ThreeWay(c.node)) =>
            /\ UnconditionalTargets(c.node) \subseteq Range(c.routed)
            /\ ~SomeConditionTrue(c.node, LocalState(c))
                  => Range(c.routed) = UnconditionalTargets(c.node)

C2_Witness ==
    /\ pc = "running"
    /\ \E i \in DOMAIN completions :
          /\ completions[i].ok
          /\ ThreeWay(completions[i].node)
          /\ SomeConditionTrue(completions[i].node, LocalState(completions[i]))
          /\ Cardinality(Range(completions[i].routed)) = 4

AllSucceed == candidate = Diamond /\ agents = NodeIds(Diamond) /\ failed = {}

DiamondSteps ==
    /\ (pc = "running" /\ previous = {"A"}) => active = {"B", "C"}
    /\ (pc = "running" /\ previous = {"B", "C"}) => active = {"D"}
    /\ execCount["D"] <= 1
    /\ Returned => execCount["D"] = 1 /\ ObjHas(state.nodeOutputs, "D")

\* C3 as stated: in the diamond A->B, A->C, B->D, C->D with every delegate succeeding,
\* the active set after A is {B, C}, after B and C it is {D}, D is executed exactly
\* once, and the final answer is D's output.
C3_DiamondAsStated ==
    AllSucceed =>
        /\ DiamondSteps
        /\ Returned => result[1].finalAnswer = ObjGet(state.nodeOutputs, "D")

\* C3 (amended): as above, and the final answer is D's output when that output is not
\* the empty string, the placeholder "No output generated" when it is.
C3_Diamond ==
    AllSucceed =>
        /\ DiamondSteps
        /\ Returned =>
              result[1].finalAnswer =
                  IF ObjGet(state.nodeOutputs, "D") = "" THEN "No output generated"
                  ELSE ObjGet(state.nodeOutputs, "D")

C3_Witness ==
    /\ AllSucceed
    /\ Returned
    /\ previous = {"D"}
    /\ result[1].finalAnswer = "D-out"

HookedVerify ==
    /\ candidate.nodes[1].id = "V"
    /\ candidate.nodes[1].onSuccess = Some("({ ok: true })")
    /\ "V" \in agents

\* C4: with edge V->P guarded by metadata.ok === true and edge V->F guarded by
\* metadata.ok === false, after V completes successfully with an onSuccess hook
\* returning {ok: true}, V's router returns P as its only destination, and F never
\* becomes active.
C4_HookSeenByRouter ==
    HookedVerify =>
        /\ \A i \in DOMAIN completions :
              (completions[i].node = "V" /\ completions[i].ok)
                  => completions[i].routed = <<"P">>
        /\ "V" \notin failed => ("F" \notin active /\ execCount["F"] = 0)

C4_Witness ==
    /\ HookedVerify
    /\ initialMetadata = ("ok" :> FALSE)
    /\ pc = "running"
    /\ previous = {"V"}
    /\ "V" \in succeeded
    /\ active = {"P"}

\* the key Object.values enumerates last: the most recently first-written key that is
\* not integer-like, or the largest integer-like key when every key is integer-like
LastEnumeratedKey ==
    LET named == SelectSeq(insertions, LAMBDA k : CanonicalIndex(k) < 0)
    IN  IF named # <<>> THEN named[Len(named)]
        ELSE CHOOSE k \in Range(insertions) :
                \A j \in Range(insertions) : CanonicalIndex(j) <= CanonicalIndex(k)

C6_NeverThrows ==
    /\ pc = "done" => result # None
    /\ (pc = "done" /\ thrown # None) =>
          /\ result[1].error = thrown
          /\ result[1].nodeOutputs = <<>>
          /\ result[1].metadata = initialMetadata

C6_Witness ==
    /\ pc = "done"
    /\ thrown # None
    /\ state.nodeOutputs # <<>>
    /\ result[1].nodeOutputs = <<>>

\* C7 as stated: in every returned result in which error is set, finalAnswer is
\* "Error during execution: " followed by that error.
C7_OneMarkerAsStated ==
    (pc = "done" /\ result[1].error # None) =>
        result[1].finalAnswer = "Error during execution: " \o result[1].error[1]

\* C7 (amended): in every returned result in which error is non-empty, finalAnswer is
\* "Error during execution: " followed by that error when graph traversal returned, and
\* "Execution failed: " followed by that error when graph traversal threw.
C7_Markers ==
    (pc = "done" /\ Truthy(result[1].error)) =>
        result[1].finalAnswer =
            (IF thrown = None THEN "Error during execution: " ELSE "Execution failed: ")
                \o result[1].error[1]

C7_Witness ==
    /\ Returned
    /\ result[1].error = Some(ExhaustedMessage("X", 2, "boom"))
    /\ result[1].finalAnswer = "Error during execution: Node X failed after 2 attempts: boom"

WellFormed(doc) ==
    /\ \A i, j \in DOMAIN doc.nodes : doc.nodes[i].id = doc.nodes[j].id => i = j
    /\ \A i \in DOMAIN doc.edges :
          doc.edges[i].from \in NodeIds(doc) /\ doc.edges[i].to \in NodeIds(doc)
    /\ doc.startNodeId # None /\ doc.startNodeId[1] \in NodeIds(doc)
    /\ doc.endNodeId # None /\ doc.endNodeId[1] \in NodeIds(doc)

\* C9: the schema validator accepts a candidate schema if and only if its node ids are
\* unique, every edge's from and to name an existing node, and startNodeId and endNodeId
\* name existing nodes.
C9_ValidatorAsStated ==
    pc \in {"pool", "rejected"} => (pc = "pool" <=> WellFormed(candidate))

\* C10: a schema containing a node with negative maxRetries is rejected before
\* execution starts, so no node executor ever runs with maxRetries < 0.
C10_NoNegativeRetriesAsStated ==
    \A n \in NodeIds(candidate) : execCount[n] > 0 => MaxRetriesOf(NodeOf(n)) >= 0

\* buildGraph wired n with addEdge to the target of its one outgoing edge
PlainTransition(n) ==
    /\ compiled[n].kind = "edge"
    /\ Len(OutgoingEdges(candidate, n)) = 1
    /\ MaxRetriesOf(NodeOf(n)) = 0

\* C11: for every completion, successful or failed, of a node with exactly one
\* unconditional outgoing edge and maxRetries = 0, the plain transition it is compiled to
\* leads to the same destinations as the three-rule router would return for that state.
C11_PlainEdgeAsStated ==
    \A i \in DOMAIN completions :
        LET c == completions[i]
        IN  PlainTransition(c.node) =>
                Range(c.routed) \ {END}
                    = Range(createConditionRouter(candidate, c.node, LocalState(c))) \ {END}

\* C12: one executor invocation raises retryCount[node] by exactly 1 however many
\* internal delegate attempts it took, and a node with maxRetries = k has made at most
\* 2*(k+1) executeInternal calls when it is first reported as failed.
C12_RetryLayersAsStated ==
    \A i \in DOMAIN completions :
        LET c == completions[i]
            n == c.node
        IN  n \in agents =>
            /\ c.patch.retryCount[n] = RetryCountOf(state.retryCount, n) + 1
            /\ (IsReport(c) /\ n \notin reported)
                  => internalCalls[n] <= 2 * (MaxRetriesOf(NodeOf(n)) + 1)

UnconditionalEdgeIndexes(n) ==
    {i \in DOMAIN OutgoingEdges(candidate, n) : OutgoingEdges(candidate, n)[i].condition = None}

\* the hook the executor evaluates for completion c, if the node has one
HookOf(c) == IF c.ok THEN NodeOf(c.node).onSuccess ELSE NodeOf(c.node).onError

\* the hook's evaluation throws, or its value is not a mapping
HookFails(code) == code \in {"$metadata.missing.x", "42"}

\* the conditional edges of n whose condition evaluates true without throwing
TrueEdges(n, st) ==
    {i \in DOMAIN ConditionalEdges(n) :
        /\ ~CondThrows(ConditionalEdges(n)[i].condition[1], Ctx(st))
        /\ CondValue(ConditionalEdges(n)[i].condition[1], Ctx(st))}

AsMapping(o) == [k \in ObjKeys(o) |-> ObjGet(o, k)]

\* the state after the updates p then q are applied to the superstep's state
Both(p, q) == ApplyPatch(ApplyPatch(state, p), q)

MetadataOf(p) == IF "metadata" \in DOMAIN p THEN p.metadata ELSE EmptyMap

\* the two metadata updates give every key they both write the same value
Agree(p, q) ==
    \A k \in DOMAIN MetadataOf(p) \cap DOMAIN MetadataOf(q) :
        MetadataOf(p)[k] = MetadataOf(q)[k]

\* C14 as stated: for any two completion updates of the same superstep, applying them to
\* metadata and to nodeOutputs in either order yields the same mappings.
C14_MergesCommuteAsStated ==
    \A i, j \in DOMAIN completions :
        i # j =>
            LET p == completions[i].patch
                q == completions[j].patch
            IN  /\ Both(p, q).metadata = Both(q, p).metadata
                /\ AsMapping(Both(p, q).nodeOutputs) = AsMapping(Both(q, p).nodeOutputs)

\* C14 (amended): for any two completion updates of the same superstep, applying them in
\* either order yields the same nodeOutputs mapping (the enumeration order of its keys
\* apart); it yields the same metadata mapping when the two updates give every key they
\* both write the same value, and otherwise a key written by both holds the value of the
\* update applied last.
C14_MergesCommute ==
    \A i, j \in DOMAIN completions :
        i # j =>
            LET p == completions[i].patch
                q == completions[j].patch
            IN  /\ AsMapping(Both(p, q).nodeOutputs) = AsMapping(Both(q, p).nodeOutputs)
                /\ Agree(p, q) => Both(p, q).metadata = Both(q, p).metadata
                /\ \A k \in DOMAIN MetadataOf(q) : Both(p, q).metadata[k] = MetadataOf(q)[k]
                /\ \A k \in DOMAIN MetadataOf(p) \ DOMAIN MetadataOf(q) :
                      Both(p, q).metadata[k] = MetadataOf(p)[k]

C14_Witness ==
    /\ pc = "running"
    /\ \E i, j \in DOMAIN completions :
          LET p == completions[i].patch
              q == completions[j].patch
          IN  /\ i # j
              /\ completions[i].ok /\ completions[j].ok
              /\ ~Agree(p, q)
              /\ Both(p, q).metadata # Both(q, p).metadata
              /\ Both(p, q).nodeOutputs # Both(q, p).nodeOutputs
              /\ AsMapping(Both(p, q).nodeOutputs) = AsMapping(Both(q, p).nodeOutputs)

\* C15: applying the same successful-completion update to metadata twice yields the
\* same metadata mapping as applying it once (the update's values are fixed once the hook
\* has been evaluated, so they do not depend on the metadata they are merged into).
C15_MergeIdempotent ==
    \A i \in DOMAIN completions :
        completions[i].ok =>
            Both(completions[i].patch, completions[i].patch).metadata
                = ApplyPatch(state, completions[i].patch).metadata

C15_Witness ==
    /\ pc = "running"
    /\ \E i \in DOMAIN completions :
          LET p == completions[i].patch
          IN  /\ completions[i].ok
              /\ p.metadata # EmptyMap
              /\ state.metadata # EmptyMap
              /\ ApplyPatch(state, p).metadata # state.metadata
              /\ Both(p, p).metadata = ApplyPatch(state, p).metadata

\* the state is the one the last barrier left
AfterBarrier == pc \in {"running", "returned"} /\ applied # <<>>

\* C16: after the barrier of a superstep, error and currentNode hold the values of the
\* update that was applied last, whatever the other updates of the step wrote; the
\* updates of a step are applied in the order the nodes completed, which is not fixed.
C16_LastWriteWins ==
    AfterBarrier =>
        /\ state.error = applied[Len(applied)].patch.error
        /\ state.currentNode = applied[Len(applied)].patch.currentNode

C16_Witness ==
    /\ AfterBarrier
    /\ candidate.nodes[1].id = "A"
    /\ Len(applied) = 2
    /\ applied[1].node = "C" /\ applied[1].ok
    /\ applied[2].node = "B" /\ ~applied[2].ok
    /\ Truthy(state.error)
    /\ state.currentNode = Some("B")

\* the last superstep had several completions, all successful with non-empty output
ParallelTerminalStep ==
    /\ Returned
    /\ Len(applied) >= 2
    /\ \A i \in DOMAIN applied : applied[i].ok /\ applied[i].patch.nodeOutputs[1].v # ""

\* C17: when the terminal superstep has two (or more) successful completions, the final
\* answer is the output of the one whose key was inserted into nodeOutputs last; which
\* one that is depends on the order the updates were applied in, so each of the outputs
\* is a possible final answer.
C17_FinalOutputChoice ==
    ParallelTerminalStep =>
        /\ insertions[Len(insertions)] \in {applied[i].node : i \in DOMAIN applied}
        /\ result[1].finalAnswer
              = ObjGet(result[1].nodeOutputs, insertions[Len(insertions)])

C17_Witness ==
    /\ ParallelTerminalStep
    /\ Len(applied) = 2
    /\ applied[1].node = "C"
    /\ applied[2].node = "B"
    /\ result[1].finalAnswer = "B-out"
    /\ ObjGet(result[1].nodeOutputs, "C") = "C-out"

\* the node that completed last in a sequential run
LastCompleted == CHOOSE n \in previous : TRUE

\* C18: in sequential execution (every superstep has exactly one active node) that
\* terminates without error, the final answer is the output of the node that completed
\* last, also when a node was executed more than once (stated for a last output that is
\* not the empty string, which the placeholder replaces).
C18_SequentialAsStated ==
    (Returned /\ sequential /\ previous # {} /\ result[1].error = None
        /\ ObjGet(result[1].nodeOutputs, LastCompleted) # "")
        => result[1].finalAnswer = ObjGet(result[1].nodeOutputs, LastCompleted)

\* C19: the next active set is the set union of the destinations of all completions of
\* the step, and a node is executed at most once per superstep, also when several
\* completed nodes route to it or one router lists it more than once.
C19_Deduplicated ==
    /\ \A i, j \in DOMAIN completions : completions[i].node = completions[j].node => i = j
    /\ (pc = "running" /\ applied # <<>>) =>
          active = UNION {Range(applied[i].routed) : i \in DOMAIN applied} \ {END}
    /\ \A n \in NodeIds(candidate) : execCount[n] <= step + 1

C19_Witness ==
    /\ pc = "running"
    /\ applied # <<>>
    /\ applied[1].routed = <<"B", "C", "B">>
    /\ active = {"B", "C"}
    /\ Completed = active
    /\ execCount["B"] = 1

\* C20: in a superstep with active set S every node of S is executed, its update is
\* applied and its router's destinations become active, whether or not another node of
\* S failed in that step.
C20_SiblingsRun ==
    AfterBarrier =>
        /\ {applied[i].node : i \in DOMAIN applied} = previous
        /\ Len(applied) = Cardinality(previous)
        /\ \A i \in DOMAIN applied :
              LET c == applied[i]
              IN  /\ Range(c.routed) \ {END} \subseteq active
                  /\ c.ok => /\ ObjHas(state.nodeOutputs, c.node)
                             /\ ObjGet(state.nodeOutputs, c.node) = c.patch.nodeOutputs[1].v
                  /\ c.node \in agents =>
                        state.retryCount[c.node] = c.patch.retryCount[c.node]
                  /\ DOMAIN MetadataOf(c.patch) \subseteq DOMAIN state.metadata

C20_Witness ==
    /\ AfterBarrier
    /\ previous = {"B", "C"}
    /\ ~applied[1].ok
    /\ applied[2].ok
    /\ ObjHas(state.nodeOutputs, applied[2].node)
    /\ applied[2].routed = <<"D">>
    /\ active = {"D"}

\* C21: if initSession fails for any agent in the pool, pool initialization aborts: the
\* graph is neither built nor executed and no node's delegate execute is ever called.
C21_InitAborts ==
    initFailed # {} =>
        /\ pc = "aborted"
        /\ compiled = EmptyMap
        /\ active = {} /\ completions = <<>> /\ step = 0
        /\ result = None
        /\ \A n \in NodeIds(candidate) : execCount[n] = 0 /\ internalCalls[n] = 0

C21_Witness ==
    /\ pc = "aborted"
    /\ initFailed = {"C"}
    /\ Cardinality(agents) = 3
    /\ execCount["A"] = 0

\* the retry rule's condition on the state n's router reads after completion c of n
RetryCondition(c) ==
    /\ Truthy(c.patch.error)
    /\ ~ObjHas(LocalState(c).nodeOutputs, c.node)
    /\ RetryCountOf(LocalState(c).retryCount, c.node) < MaxRetriesOf(NodeOf(c.node)) + 1

\* C22: node n's router returns n itself as the sole destination exactly when n's own
\* completion recorded an error, n has no entry in nodeOutputs, and retryCount[n] <
\* maxRetries(n) + 1; the rule applies before every outgoing edge, also a conditional
\* edge whose condition is true, and an error recorded by another node does not trigger
\* it.
C22_RetryRule ==
    \A i \in DOMAIN completions :
        LET c == completions[i]
        IN  compiled[c.node].kind = "router" =>
            /\ c.routed = <<c.node>> <=> RetryCondition(c)
            /\ (Truthy(state.error) /\ ~Truthy(c.patch.error)) => c.routed # <<c.node>>

C22_Witness ==
    /\ pc = "running"
    /\ \E i \in DOMAIN completions :
          LET c == completions[i]
          IN  /\ compiled[c.node].kind = "router"
              /\ RetryCondition(c)
              /\ SomeConditionTrue(c.node, LocalState(c))
              /\ c.routed = <<c.node>>

\* an error is present and n's attempts are used up, on the state n's router reads
ExhaustedCondition(c) ==
    /\ Truthy(LocalState(c).error)
    /\ RetryCountOf(LocalState(c).retryCount, c.node) >= MaxRetriesOf(NodeOf(c.node)) + 1

\* the conditional edges of n that evaluate true, in declaration order
MatchingEdges(n, st) ==
    SelectSeq(ConditionalEdges(n), LAMBDA e : evaluateCondition(e.condition[1], Ctx(st)))

\* C23: when an error is present and retryCount[n] >= maxRetries(n) + 1, n's router
\* returns at most one destination: the target of the first outgoing conditional edge, in
\* declaration order, whose condition evaluates true, or no destination if none matches;
\* unconditional outgoing edges are not followed.
C23_ExhaustedRule ==
    \A i \in DOMAIN completions :
        LET c == completions[i]
            matching == MatchingEdges(c.node, LocalState(c))
        IN  (compiled[c.node].kind = "router" /\ ExhaustedCondition(c)) =>
                c.routed = IF matching # <<>> THEN <<matching[1].to>> ELSE <<END>>

C23_Witness ==
    /\ pc = "running"
    /\ \E i \in DOMAIN completions :
          LET c == completions[i]
          IN  /\ compiled[c.node].kind = "router"
              /\ ExhaustedCondition(c)
              /\ Len(MatchingEdges(c.node, LocalState(c))) = 2
              /\ UnconditionalTargets(c.node) # {}
              /\ c.routed = <<"H">>

\* neither error rule applies on the state n's router reads after completion c
SuccessCondition(c) ==
    /\ ~(/\ Truthy(LocalState(c).error)
          /\ ~ObjHas(LocalState(c).nodeOutputs, c.node)
          /\ RetryCountOf(LocalState(c).retryCount, c.node)
                < MaxRetriesOf(NodeOf(c.node)) + 1)
    /\ ~ExhaustedCondition(c)

\* C24: when neither error rule applies, n's router returns the targets of all of n's
\* unconditional outgoing edges together with the targets of every conditional outgoing
\* edge whose condition evaluates true against the current state, and it returns no
\* destination exactly when that union is empty.
C24_SuccessRule ==
    \A i \in DOMAIN completions :
        LET c == completions[i]
            union == UnconditionalTargets(c.node)
                        \cup {e.to : e \in Range(MatchingEdges(c.node, LocalState(c)))}
        IN  (compiled[c.node].kind = "router" /\ SuccessCondition(c)) =>
            /\ Range(c.routed) \ {END} = union
            /\ c.routed = <<END>> <=> union = {}

C24_Witness ==
    /\ pc = "running"
    /\ \E i \in DOMAIN completions :
          LET c == completions[i]
          IN  /\ compiled[c.node].kind = "router"
              /\ SuccessCondition(c)
              /\ UnconditionalTargets(c.node) = {"T1", "T2", "T3"}
              /\ Range(c.routed) = {"T1", "T2", "T3", "T4"}

\* the attempt number of the execution that produced completion c
AttemptOf(c) == RetryCountOf(state.retryCount, c.node) + 1

\* completion c leaves every other node's entry of nodeOutputs and retryCount alone
OthersKept(c) ==
    LET st == LocalState(c)
    IN  /\ \A m \in ObjKeys(state.nodeOutputs) \ {c.node} :
              ObjGet(st.nodeOutputs, m) = ObjGet(state.nodeOutputs, m)
        /\ ObjKeys(st.nodeOutputs) \ {c.node} = ObjKeys(state.nodeOutputs) \ {c.node}
        /\ \A m \in DOMAIN state.retryCount \ {c.node} :
              st.retryCount[m] = state.retryCount[m]
        /\ DOMAIN st.retryCount \ {c.node} = DOMAIN state.retryCount \ {c.node}

\* C25: when node n's delegate call succeeds with output o on attempt a = retryCount[n]
\* + 1, the update sets nodeOutputs[n] = o, error = none, currentNode = n, retryCount[n]
\* = a, merges the onSuccess hook's result (evaluated with retryCount = a - 1) into
\* metadata, and changes no other node's entry in nodeOutputs or retryCount.
C25_SuccessPatch ==
    \A i \in DOMAIN completions :
        LET c == completions[i]
            n == c.node
            st == LocalState(c)
            hook == NodeOf(n).onSuccess
        IN  (n \in agents /\ c.outcome.ok) =>
            /\ ObjGet(st.nodeOutputs, n) = c.outcome.val
            /\ st.error = None
            /\ st.currentNode = Some(n)
            /\ st.retryCount[n] = AttemptOf(c)
            /\ hook = None => st.metadata = state.metadata
            /\ hook = Some("({ ok: true })") => st.metadata = Merge(state.metadata, "ok" :> TRUE)
            /\ hook = Some("({ ok: false })")
                  => st.metadata = Merge(state.metadata, "ok" :> FALSE)
            /\ hook = Some("({ ok: $retryCount === 0 })")
                  => st.metadata = Merge(state.metadata, "ok" :> (AttemptOf(c) - 1 = 0))
            /\ OthersKept(c)

C25_Witness ==
    /\ pc = "running"
    /\ \E i \in DOMAIN completions :
          LET c == completions[i]
          IN  /\ c.outcome.ok
              /\ AttemptOf(c) = 2
              /\ NodeOf(c.node).onSuccess = Some("({ ok: $retryCount === 0 })")
              /\ state.metadata = ("ok" :> TRUE)
              /\ LocalState(c).metadata = ("ok" :> FALSE)
              /\ ObjKeys(state.nodeOutputs) = {"A", "B"}

\* C26: when node n's delegate call fails with message m on attempt a = retryCount[n] +
\* 1, the update leaves nodeOutputs unchanged, sets currentNode = n and retryCount[n] = a,
\* merges the onError hook's result into metadata, and sets error to m alone if a <
\* maxRetries(n) + 1 or to "Node n failed after a attempts: m" if a >= maxRetries(n) + 1.
C26_FailurePatch ==
    \A i \in DOMAIN completions :
        LET c == completions[i]
            n == c.node
            st == LocalState(c)
            hook == NodeOf(n).onError
            a == AttemptOf(c)
        IN  (n \in agents /\ ~c.outcome.ok) =>
            /\ st.nodeOutputs = state.nodeOutputs
            /\ st.currentNode = Some(n)
            /\ st.retryCount[n] = a
            /\ hook = None => st.metadata = state.metadata
            /\ hook = Some("({ ok: false })")
                  => st.metadata = Merge(state.metadata, "ok" :> FALSE)
            /\ hook = Some("$metadata.missing.x") => st.metadata = state.metadata
            /\ a < MaxRetriesOf(NodeOf(n)) + 1 => st.error = Some(c.outcome.val)
            /\ a >= MaxRetriesOf(NodeOf(n)) + 1 =>
                  st.error = Some("Node " \o n \o " failed after " \o ToString(a)
                                      \o " attempts: " \o c.outcome.val)
            /\ OthersKept(c)

C26_Witness ==
    /\ pc = "running"
    /\ \E i \in DOMAIN completions :
          LET c == completions[i]
          IN  /\ c.node \in agents
              /\ ~c.outcome.ok
              /\ AttemptOf(c) = 2
              /\ NodeOf(c.node).onError = Some("({ ok: false })")
              /\ LocalState(c).metadata = ("ok" :> FALSE)
              /\ LocalState(c).error = Some("Node X failed after 2 attempts: boom")

\* C27: all node executors of one superstep read the same pre-step state and none
\* mutates it in place; a node's delegate input contains exactly the nodeOutputs merged in
\* earlier supersteps and never the output of a sibling running in the same superstep;
\* the step's updates are applied only after every executor of the step has completed.
C27_BarrierSemantics ==
    pc = "running" =>
        \A i \in DOMAIN completions :
            LET c == completions[i]
            IN  /\ \A j \in DOMAIN completions : completions[j].seen = c.seen
                /\ c.seen = state
                /\ c.input = c.seen.nodeOutputs
                /\ ObjKeys(c.input) = Range(insertions)
                /\ \A j \in DOMAIN completions :
                      (j # i /\ completions[j].node \notin Range(insertions))
                          => ~ObjHas(c.input, completions[j].node)
                /\ state.currentNode # Some(c.node) \/ c.node \in previous

C27_Witness ==
    /\ pc = "running"
    /\ Len(completions) = 2
    /\ completions[1].ok /\ completions[2].ok
    /\ completions[1].node # completions[2].node
    /\ ObjKeys(completions[2].input) = {candidate.startNodeId[1]}
    /\ ObjKeys(LocalState(completions[1]).nodeOutputs)
           = {candidate.startNodeId[1], completions[1].node}

\* the attempt counts an update writes
CountsOf(p) == IF "retryCount" \in DOMAIN p THEN p.retryCount ELSE EmptyMap

\* C28: every update produced by node n's executor writes at most the single key n of
\* retryCount, so for all m # n retryCount[m] is unchanged by any completion of n, and
\* merging the updates of one superstep gives the same retryCount whatever the order in
\* which they are applied.
C28_RetryCountOwnership ==
    /\ \A i \in DOMAIN completions :
          LET c == completions[i]
          IN  /\ DOMAIN CountsOf(c.patch) \subseteq {c.node}
              /\ \A m \in DOMAIN state.retryCount \ {c.node} :
                    /\ m \in DOMAIN LocalState(c).retryCount
                    /\ LocalState(c).retryCount[m] = state.retryCount[m]
              /\ DOMAIN LocalState(c).retryCount \subseteq DOMAIN state.retryCount \cup {c.node}
    /\ \A i, j \in DOMAIN completions :
          Both(completions[i].patch, completions[j].patch).retryCount
              = Both(completions[j].patch, completions[i].patch).retryCount
    /\ AfterBarrier =>
          \A i \in DOMAIN applied :
              \A m \in DOMAIN CountsOf(applied[i].patch) :
                  state.retryCount[m] = CountsOf(applied[i].patch)[m]

C28_Witness ==
    /\ pc = "running"
    /\ Len(completions) = 2
    /\ DOMAIN CountsOf(completions[1].patch) = {completions[1].node}
    /\ DOMAIN CountsOf(completions[2].patch) = {completions[2].node}
    /\ DOMAIN state.retryCount = {candidate.startNodeId[1]}
    /\ DOMAIN Both(completions[1].patch, completions[2].patch).retryCount
          = {candidate.startNodeId[1], completions[1].node, completions[2].node}
    /\ completions[1].node # completions[2].node

\* the traversal has begun (graph.invoke has been called)
Invoked == pc \in {"running", "returned", "threw", "done"}

\* no update writes prompt or finalAnswer, and the state keeps the values it was seeded with
PromptAndAnswerKept ==
    /\ \A i \in DOMAIN completions :
          {"prompt", "finalAnswer"} \cap DOMAIN completions[i].patch = {}
    /\ Invoked => (state.prompt = Prompt /\ state.finalAnswer = "")
    /\ \A i \in DOMAIN completions :
          /\ LocalState(completions[i]).prompt = Prompt
          /\ LocalState(completions[i]).finalAnswer = ""

\* C29 as stated: no node completion changes prompt or finalAnswer: during traversal
\* prompt equals the original input and the state's finalAnswer keeps its initial value;
\* the returned finalAnswer is computed only once, after the active set is empty.
C29_AnswerAtEndAsStated ==
    /\ PromptAndAnswerKept
    /\ result # None <=> pc = "done"
    /\ result # None => active = {}

\* C29 (amended): no node completion changes prompt or finalAnswer: during traversal
\* prompt equals the original input and the state's finalAnswer keeps its initial value;
\* the returned finalAnswer is computed only once, after the active set is empty or the
\* traversal has thrown.
C29_AnswerAtEnd ==
    /\ PromptAndAnswerKept
    /\ result # None <=> pc = "done"
    /\ result # None => (active = {} \/ thrown # None)
    /\ (result # None /\ thrown = None) =>
          result[1].finalAnswer = ReturnedResult(state).finalAnswer
    /\ (result # None /\ thrown # None) =>
          result[1].finalAnswer = "Execution failed: " \o thrown[1]

C29_Witness ==
    /\ pc = "done"
    /\ thrown = None
    /\ active = {}
    /\ step >= 3
    /\ state.prompt = Prompt
    /\ state.finalAnswer = ""
    /\ result[1].finalAnswer \notin {"", "No output generated"}
    /\ result[1].error = None

\* C30: in every reachable state a node id is a key of nodeOutputs only if some execution
\* of that node has succeeded (hence retryCount of that node >= 1); a failed attempt
\* neither adds nor alters any entry, and an entry once present is never removed.
C30_OutputsInvariant ==
    /\ \A n \in ObjKeys(state.nodeOutputs) :
          /\ n \in succeeded
          /\ RetryCountOf(state.retryCount, n) >= 1
    /\ Range(insertions) = ObjKeys(state.nodeOutputs)
    /\ \A i \in DOMAIN completions :
          LET c == completions[i]
              st == LocalState(c)
          IN  /\ ~c.ok => st.nodeOutputs = state.nodeOutputs
              /\ ObjKeys(state.nodeOutputs) \subseteq ObjKeys(st.nodeOutputs)
              /\ ObjKeys(st.nodeOutputs) \subseteq ObjKeys(state.nodeOutputs) \cup {c.node}
              /\ \A n \in ObjKeys(st.nodeOutputs) :
                    n \in succeeded /\ RetryCountOf(st.retryCount, n) >= 1
    /\ pc = "done" /\ thrown = None => ObjKeys(result[1].nodeOutputs) \subseteq succeeded

C30_Witness ==
    /\ pc = "running"
    /\ \E i \in DOMAIN completions :
          LET c == completions[i]
          IN  /\ c.node \in agents
              /\ ~c.ok
              /\ ObjHas(state.nodeOutputs, c.node)
              /\ Len(state.nodeOutputs) = 2
              /\ LocalState(c).nodeOutputs = state.nodeOutputs
              /\ LocalState(c).retryCount[c.node] = 2

\* graph.invoke has been called and no node has run yet
AtRunStart == pc = "running" /\ step = 0 /\ completions = <<>>

\* the caller-supplied initial metadata (none when buildGraph gets no options)
CallerMetadata == IF options = None THEN EmptyMap ELSE options[1]

\* C31: at run start the only active node is startNodeId, nodeOutputs and retryCount are
\* empty, error is none, currentNode is none, and metadata equals the schema's
\* initialMetadata overlaid with the caller-supplied initial metadata (the caller's value
\* wins on a key present in both).
C31_InitialState ==
    AtRunStart =>
        /\ active = {candidate.startNodeId[1]}
        /\ state.nodeOutputs = <<>>
        /\ state.retryCount = EmptyMap
        /\ state.error = None
        /\ state.currentNode = None
        /\ DOMAIN state.metadata = DOMAIN candidate.initialMetadata \cup DOMAIN CallerMetadata
        /\ \A k \in DOMAIN CallerMetadata : state.metadata[k] = CallerMetadata[k]
        /\ \A k \in DOMAIN candidate.initialMetadata \ DOMAIN CallerMetadata :
              state.metadata[k] = candidate.initialMetadata[k]

C31_Witness ==
    /\ AtRunStart
    /\ active = {"V"}
    /\ candidate.initialMetadata = ("ok" :> FALSE)
    /\ CallerMetadata = ("ok" :> TRUE)
    /\ state.metadata = ("ok" :> TRUE)

\* C32: BaseCLIAgent.execute calls executeInternal at most twice, the second time only
\* if the first call failed; it returns the result of the first call that succeeds, and
\* if both fail it fails with the error of the second (last) call.
C32_AgentRetry ==
    pc = "agent" =>
        LET first == agentRun.script[1]
            second == agentRun.script[2]
        IN  /\ agentRun.calls <= 2
            /\ agentRun.calls = 2 => ~first.ok
            /\ agentRun.outcome # None =>
                  /\ first.ok => (agentRun.outcome[1] = first /\ agentRun.calls = 1)
                  /\ (~first.ok /\ second.ok)
                        => (agentRun.outcome[1] = second /\ agentRun.calls = 2)
                  /\ (~first.ok /\ ~second.ok)
                        => (agentRun.outcome[1] = Fail(second.val) /\ agentRun.calls = 2)
                  /\ agentRun.outcome[1] = execute(agentRun.script)
                  /\ agentRun.calls = CallsMade(agentRun.script, 1)

C32_Witness ==
    /\ pc = "agent"
    /\ agentRun.script = <<Fail("boom"), Fail("bang")>>
    /\ agentRun.calls = 2
    /\ agentRun.outcome = Some(Fail("bang"))

\* node n is the end node and no edge leaves it
SinkEnd(n) == candidate.endNodeId = Some(n) /\ OutgoingEdges(candidate, n) = <<>>

Successors(schema, from) == {e.to : e \in {d \in Range(schema.edges) : d.from \in from}}

\* the nodes reached from seen along edges
RECURSIVE ReachedFrom(_, _)
ReachedFrom(schema, seen) ==
    IF Successors(schema, seen) \subseteq seen THEN seen
    ELSE ReachedFrom(schema, seen \cup Successors(schema, seen))

\* the schema's edges form no cycle
Acyclic(schema) ==
    \A n \in NodeIds(schema) : n \notin ReachedFrom(schema, Successors(schema, {n}))

\* a run of an acyclic schema in which every node has a bound delegate
Eligible == pc = "running" /\ Acyclic(candidate) /\ agents = NodeIds(candidate)

\* C34 as stated: for every schema whose edges form no cycle, in which every node has a
\* bound delegate and every delegate call returns, the run reaches an empty active set
\* after finitely many supersteps.
C34_TerminatesAsStated == Eligible ~> (pc = "returned" /\ active = {})

\* every such run ends: with an empty active set or, when the retries take it to the
\* step limit of graph.invoke, with the traversal throwing there
EndsOrHitsLimit ==
    Eligible ~> \/ pc = "returned" /\ active = {}
                \/ pc = "threw" /\ step + 1 >= RecursionLimit

\* no edge of the schema leads to n, so n runs again only through the retry rule
OnlyRetried(n) == \A e \in Range(candidate.edges) : e.to # n

\* C35: in every run a node is re-activated by the retry rule at most maxRetries times;
\* in particular a node with maxRetries = 0 is never its own successor through the retry
\* rule.  This holds for every agent binding, including a node for which no delegate is
\* bound.
C35_RetriesBoundedAsStated ==
    Invoked =>
        /\ \A n \in NodeIds(candidate) :
              (OnlyRetried(n) /\ MaxRetriesOf(NodeOf(n)) >= 0)
                  => execCount[n] <= MaxRetriesOf(NodeOf(n)) + 1
        /\ \A i \in DOMAIN completions :
              LET c == completions[i]
              IN  (MaxRetriesOf(NodeOf(c.node)) = 0 /\ OnlyRetried(c.node))
                      => c.node \notin Range(c.routed)

\* the same bound for the nodes that have a bound delegate
RetriesBoundedWithDelegate ==
    Invoked =>
        /\ \A n \in NodeIds(candidate) \cap agents :
              (OnlyRetried(n) /\ MaxRetriesOf(NodeOf(n)) >= 0)
                  => execCount[n] <= MaxRetriesOf(NodeOf(n)) + 1
        /\ \A i \in DOMAIN completions :
              LET c == completions[i]
              IN  (c.node \in agents /\ MaxRetriesOf(NodeOf(c.node)) = 0
                      /\ OnlyRetried(c.node))
                      => c.node \notin Range(c.routed)

\* the executions of n whose updates the barriers have applied
AppliedExecutions(n) == execCount[n] - (IF n \in Completed THEN 1 ELSE 0)

\* C36: retryCount[n] is never reset or decreased: each execution of n with a bound
\* delegate sets it to its previous value plus 1, also when n is entered again through a
\* cycle or through a second incoming edge, so attempts used in earlier visits
\* (successful ones included) count against maxRetries(n) in later visits and the attempt
\* number in a later failure message is the cumulative count.
C36_RetryCountCumulative ==
    Invoked =>
        /\ \A n \in NodeIds(candidate) \cap agents :
              RetryCountOf(state.retryCount, n) = AppliedExecutions(n)
        /\ \A i \in DOMAIN completions :
              LET c == completions[i]
                  n == c.node
                  st == LocalState(c)
              IN  n \in agents =>
                  /\ st.retryCount[n] = RetryCountOf(state.retryCount, n) + 1
                  /\ st.retryCount[n] = execCount[n]
                  /\ \A m \in DOMAIN state.retryCount : st.retryCount[m] >= state.retryCount[m]
                  /\ (~c.ok /\ execCount[n] >= MaxRetriesOf(NodeOf(n)) + 1)
                        => st.error = Some(ExhaustedMessage(n, execCount[n], c.outcome.val))
                  /\ (~c.ok /\ execCount[n] < MaxRetriesOf(NodeOf(n)) + 1)
                        => st.error = Some(c.outcome.val)

C36_Witness ==
    /\ pc = "running"
    /\ \E i \in DOMAIN completions :
          LET c == completions[i]
          IN  /\ c.node \in succeeded
              /\ ObjHas(state.nodeOutputs, c.node)
              /\ ~c.ok
              /\ execCount[c.node] = 2
              /\ MaxRetriesOf(NodeOf(c.node)) = 0
              /\ LocalState(c).error = Some("Node A failed after 2 attempts: boom")

\* a later execution of c's node has failed with attempts remaining although an
\* earlier execution left an output
FailedAfterSuccess(c) ==
    /\ c.node \in agents
    /\ ~c.ok
    /\ ObjHas(state.nodeOutputs, c.node)
    /\ RetryCountOf(LocalState(c).retryCount, c.node) < MaxRetriesOf(NodeOf(c.node)) + 1

\* C37: a node that already has an entry in nodeOutputs from an earlier successful
\* execution is never re-activated by the retry rule when a later execution of it fails,
\* even if retryCount is still below maxRetries + 1; in that case the router applies the
\* success rule and follows the node's unconditional edges with the error still set.
C37_NoRetryAfterSuccess ==
    \A i \in DOMAIN completions :
        LET c == completions[i]
            st == LocalState(c)
        IN  (compiled[c.node].kind = "router" /\ FailedAfterSuccess(c)) =>
            /\ ~RetryCondition(c)
            /\ c.node \in Range(c.routed) => c.node \in UnconditionalTargets(c.node)
                                               \cup {e.to : e \in Range(ConditionalEdges(c.node))}
            /\ UnconditionalTargets(c.node) \subseteq Range(c.routed)
            /\ Range(c.routed) \ {END}
                  = UnconditionalTargets(c.node)
                        \cup {e.to : e \in Range(MatchingEdges(c.node, st))}
            /\ Truthy(st.error)
            /\ st.error = Some(c.outcome.val)

C37_Witness ==
    /\ pc = "running"
    /\ \E i \in DOMAIN completions :
          LET c == completions[i]
          IN  /\ compiled[c.node].kind = "router"
              /\ FailedAfterSuccess(c)
              /\ c.node = "D"
              /\ c.routed = <<"E">>
              /\ LocalState(c).error = Some("boom")

\* the nodes with an edge to n
Predecessors(n) == {e.from : e \in {d \in Range(candidate.edges) : d.to = n}}

\* the run of the staggered schema in which no delegate call has failed
StaggerSucceeding ==
    candidate = Stagger /\ agents = {"A", "B", "D"} /\ failed = {} /\ Invoked

\* C38: there is no join barrier: a node with several incoming edges becomes active in
\* the superstep after any single predecessor routes to it, without waiting for its other
\* predecessors; if its predecessors complete in different supersteps it is executed once
\* for each such superstep, each later successful execution overwriting its nodeOutputs
\* value.
C38_NoJoin ==
    /\ (pc = "running" /\ applied # <<>>) =>
          \A i \in DOMAIN applied : Range(applied[i].routed) \ {END} \subseteq active
    /\ \A i \in DOMAIN completions :
          completions[i].ok =>
              ObjGet(LocalState(completions[i]).nodeOutputs, completions[i].node)
                  = completions[i].outcome.val
    /\ AfterBarrier =>
          \A i \in DOMAIN applied :
              applied[i].ok => ObjGet(state.nodeOutputs, applied[i].node) = applied[i].outcome.val
    /\ StaggerSucceeding =>
          /\ (pc = "running" /\ step = 1) => (active = {"B", "D"} /\ execCount["B"] <= 1)
          /\ (pc = "running" /\ step = 2) => active = {"D", "E"}
          /\ (pc = "running" /\ step = 3) => active = {"E"}
          /\ pc \in {"returned", "done"} => (execCount["D"] = 2 /\ execCount["E"] = 2)

C38_Witness ==
    /\ StaggerSucceeding
    /\ pc = "running"
    /\ step = 2
    /\ Predecessors("D") = {"A", "B"}
    /\ previous = {"B", "D"}
    /\ ObjGet(state.nodeOutputs, "D") = ""
    /\ \E i \in DOMAIN completions :
          /\ completions[i].node = "D"
          /\ completions[i].ok
          /\ completions[i].outcome.val = "D-out"
          /\ ObjGet(LocalState(completions[i]).nodeOutputs, "D") = "D-out"
          /\ execCount["D"] = 2

\* the applied updates that write metadata key k, by position
WritersOf(k) == {i \in DOMAIN applied : k \in DOMAIN MetadataOf(applied[i].patch)}

\* the greatest member of a non-empty set of positions
Last(S) == CHOOSE i \in S : \A j \in S : j <= i

\* C39: hooks of nodes completing in the same superstep are all evaluated against the
\* metadata as of the start of that superstep; none observes a sibling's update from the
\* same step, so when two such hooks write the same key the value after the barrier is
\* the result of exactly one of them (the one applied last) and the other update is lost,
\* e.g. two hooks each returning {n: metadata.n + 1} raise n by 1, not 2.
C39_HooksReadStepStart ==
    /\ \A i \in DOMAIN completions :
          LET c == completions[i]
          IN  (c.node \in agents /\ HookOf(c) # None) =>
              /\ c.patch.metadata =
                     executeMetadataUpdate(HookOf(c)[1],
                         [output |-> c.outcome.val, error |-> c.outcome.val,
                          retryCount |-> AttemptOf(c) - 1,
                          metadata |-> c.seen.metadata, nodeId |-> c.node])
              /\ c.seen.metadata = state.metadata
              /\ HookOf(c) = Some("({ n: ($metadata.n || 0) + 1 })")
                    => c.patch.metadata = ("n" :> state.metadata["n"] + 1)
    /\ AfterBarrier =>
          \A k \in DOMAIN state.metadata :
              WritersOf(k) # {} =>
                  state.metadata[k] = applied[Last(WritersOf(k))].patch.metadata[k]
    /\ (AfterBarrier /\ candidate = Tally /\ previous = {"B", "C"}) =>
          state.metadata["n"] = IF {"B", "C"} \cap succeeded = {} THEN 0 ELSE 1

C39_Witness ==
    /\ AfterBarrier
    /\ candidate = Tally
    /\ previous = {"B", "C"}
    /\ Len(applied) = 2
    /\ applied[1].ok /\ applied[2].ok
    /\ applied[1].patch.metadata = ("n" :> 1)
    /\ applied[2].patch.metadata = ("n" :> 1)
    /\ state.metadata = ("n" :> 1)

\* C40: the error of the returned result is the error field of the last applied completion
\* update only: any successful completion applied after a failed one clears error, so a
\* run in which some node exhausted its retries returns error = none and a finalAnswer
\* without the error marker whenever a later (or later-applied sibling) completion
\* succeeded.
C40_LastErrorOnly ==
    /\ (Returned /\ applied # <<>>) =>
          /\ result[1].error = applied[Len(applied)].patch.error
          /\ applied[Len(applied)].ok =>
                /\ result[1].error = None
                /\ result[1].finalAnswer = LastOutput(result[1].nodeOutputs)
    /\ \A i, j \in DOMAIN completions :
          (i # j /\ completions[j].ok)
              => Both(completions[i].patch, completions[j].patch).error = None

C40_Witness ==
    /\ Returned
    /\ reported # {}
    /\ \E n \in reported : n \notin succeeded
    /\ applied[Len(applied)].ok
    /\ result[1].error = None
    /\ result[1].finalAnswer = "H-out"

====
